---------------------------- MODULE Spec2Model ----------------------------
(***************************************************************************)
(* A model of the markdown -> ADF converter of jira_client.py:             *)
(*   JiraClient._convert_to_adf, JiraClient._tokens_to_adf and             *)
(*   JiraClient._process_inline.                                           *)
(*                                                                         *)
(* The token stream is the output of the markdown-it lexer (md.parse), an  *)
(* external collaborator; it is drawn from bounded sets of token           *)
(* sequences.  _tokens_to_adf is modelled as a state machine over an       *)
(* explicit call stack: one frame per active call, one action per branch   *)
(* of each loop.  Python indices are 0-based, the model's are 1-based: the *)
(* loop guard "i < len(tokens)" reads "i <= Len(tokens)" here.             *)
(* A Python str is a sequence of one-character strings.                    *)
(*                                                                         *)
(* A second specification, SpecClient, models the calls to the REST API:   *)
(* the wrapper of retry_on_failure, create_issue, bulk_create_issues and   *)
(* transition_issue, with the server as an external collaborator.          *)
(***************************************************************************)
EXTENDS Integers, Sequences, FiniteSets, TLC

VARIABLES
    entry,    \* the method the caller invoked
    text,     \* the argument of _convert_to_adf
    tokens,   \* the token list handed to the outermost _tokens_to_adf call
    stack,    \* the active calls, the running one last
    pc,       \* "convert" | "build" | "client" | "done"
    result,   \* the value returned to the caller
    raised,   \* the exception that left the call (None: none)
    other,    \* a second call in another thread, while it is not running
    history,  \* what the client did to the outside: calls of the wrapped
              \* function, time.sleep, session.request
    args      \* the arguments of the client call

vars == <<entry, text, tokens, stack, pc, result, raised, other, history, args>>

\* Python's None, told apart from every str (a sequence of characters)
None == <<"None">>

-----------------------------------------------------------------------------
(* Tokens (markdown_it.token.Token): the fields the converter reads.        *)

Tok(t) ==
    [type |-> t, tag |-> "", content |-> <<>>, info |-> <<>>,
     children |-> <<>>, attrs |-> <<>>]

Inline(ch) == [Tok("inline") EXCEPT !.children = ch]

Text(s) == [Tok("text") EXCEPT !.content = s]

Fence(s, lang) == [Tok("fence") EXCEPT !.content = s, !.info = lang]

HeadingOpen(n) == [Tok("heading_open") EXCEPT !.tag = n]

-----------------------------------------------------------------------------
(* The token streams the converter is run on.  md.parse returns a balanced  *)
(* stream; each family below is the set of balanced streams of one part of  *)
(* the token grammar, up to a length.                                       *)

MaxListLen == 12      \* tokens of a stream of paragraphs and (nested) lists
MaxTableLen == 16     \* tokens of a table stream
MaxMixedLen == 5      \* tokens of a stream of blocks of every kind
MaxInlineLen == 3     \* children of the inline token of a lone paragraph
MaxMalformedLen == 9  \* tokens of a balanced stream before one is lost
MaxSkippedLen == 4    \* tokens of a stream of skipped tokens and leaf blocks
MaxRichLen == 2       \* children of an inline token with links and images

A == <<"a">>

B == <<"b">>

\* the children of inline tokens
ChildTokens ==
    {Text(A), Text(<<>>), Text(<<" ">>),
     [Tok("code_inline") EXCEPT !.content = A],
     Tok("strong_open"), Tok("strong_close"), Tok("em_open"), Tok("em_close"),
     Tok("softbreak"), Tok("hardbreak")}

RECURSIVE InlineRuns(_)
InlineRuns(n) ==
    IF n = 0 THEN {<<>>}
    ELSE {Append(r, c) : r \in InlineRuns(n - 1), c \in ChildTokens}

Para(run) == <<Tok("paragraph_open"), Inline(run), Tok("paragraph_close")>>

\* paragraphs and lists: a list holds items, an item holds blocks
RECURSIVE ListBlock(_), ListBlocks(_), ListItems(_)
ListBlock(n) ==
    (IF n = 3 THEN {Para(<<Text(A)>>)} ELSE {})
    \cup (IF n >= 2
          THEN {<<Tok(k[1])>> \o items \o <<Tok(k[2])>> :
                    k \in {<<"bullet_list_open", "bullet_list_close">>,
                           <<"ordered_list_open", "ordered_list_close">>},
                    items \in ListItems(n - 2)}
          ELSE {})

ListBlocks(n) ==
    IF n = 0 THEN {<<>>}
    ELSE UNION {{b \o rest : b \in ListBlock(k), rest \in ListBlocks(n - k)} :
                   k \in 1..n}

ListItems(n) ==
    IF n = 0 THEN {<<>>}
    ELSE UNION {{<<Tok("list_item_open")>> \o body \o <<Tok("list_item_close")>> \o rest :
                     body \in ListBlocks(k - 2), rest \in ListItems(n - k)} :
                   k \in 2..n}

\* tables: an optional thead section, then an optional tbody section; a
\* section holds rows, a row holds cells, a cell holds one inline token
TableCell ==
    {<<Tok(k[1]), Inline(<<Text(A)>>), Tok(k[2])>> :
         k \in {<<"th_open", "th_close">>, <<"td_open", "td_close">>}}
    \cup {<<Tok("td_open"), Inline(<<>>), Tok("td_close")>>}

RECURSIVE TableCells(_), TableRows(_)
TableCells(n) ==
    IF n = 0 THEN {<<>>}
    ELSE IF n < 3 THEN {}
    ELSE {c \o rest : c \in TableCell, rest \in TableCells(n - 3)}

TableRows(n) ==
    IF n = 0 THEN {<<>>}
    ELSE UNION {{<<Tok("tr_open")>> \o cells \o <<Tok("tr_close")>> \o rest :
                     cells \in TableCells(k - 2), rest \in TableRows(n - k)} :
                   k \in 2..n}

TableSection(open, close, n) ==
    IF n = 0 THEN {<<>>}
    ELSE IF n < 2 THEN {}
    ELSE {<<Tok(open)>> \o rows \o <<Tok(close)>> : rows \in TableRows(n - 2)}

Table(n) ==
    IF n < 2 THEN {}
    ELSE UNION {{<<Tok("table_open")>> \o head \o body \o <<Tok("table_close")>> :
                     head \in TableSection("thead_open", "thead_close", k),
                     body \in TableSection("tbody_open", "tbody_close", n - 2 - k)} :
                   k \in 0..(n - 2)}

\* blocks of every kind
RECURSIVE MixedBlock(_), MixedBlocks(_)
MixedBlock(n) ==
    (IF n = 1
     THEN {<<Tok("hr")>>, <<Tok("html_block")>>, <<Fence(<<>>, <<>>)>>}
     ELSE {})
    \cup (IF n = 3
          THEN {Para(<<>>), Para(<<Text(A)>>)}
               \cup {<<HeadingOpen(<<"h", "2">>), Inline(<<Text(A)>>),
                       Tok("heading_close")>>}
          ELSE {})
    \cup (IF n >= 2
          THEN {<<Tok("blockquote_open")>> \o body \o <<Tok("blockquote_close")>> :
                    body \in MixedBlocks(n - 2)}
               \cup ListBlock(n) \cup Table(n)
          ELSE {})

MixedBlocks(n) ==
    IF n = 0 THEN {<<>>}
    ELSE UNION {{b \o rest : b \in MixedBlock(k), rest \in MixedBlocks(n - k)} :
                   k \in 1..n}

ListStreams == UNION {ListBlocks(n) : n \in 0..MaxListLen}

TableStreams == UNION {Table(n) : n \in 0..MaxTableLen}

\* code blocks with a content and a language
CodeStreams ==
    {<<Fence(<<"a", "\n">>, <<"p", "y">>)>>,
     <<[Tok("code_block") EXCEPT !.content = <<"a", "\n">>]>>}

MixedStreams == CodeStreams \cup UNION {MixedBlocks(n) : n \in 0..MaxMixedLen}

InlineStreams == {Para(run) : run \in UNION {InlineRuns(n) : n \in 0..MaxInlineLen}}

\* inline runs with a mark opened inside another mark: text A under the
\* outer mark, text B under both; the last one has a text after the inner
\* close as well ("*a *b* a*")
NestedRuns ==
    {<<Tok(o[1]), Text(A), Tok(o[2]), Text(B), Tok(o[3]), Tok(o[4])>> :
         o \in {<<"strong_open", "em_open", "em_close", "strong_close">>,
                <<"em_open", "strong_open", "strong_close", "em_close">>}}
    \cup {<<Tok("em_open"), Text(A), Tok("em_open"), Text(B), Tok("em_close"),
            Text(A), Tok("em_close")>>}

NestedStreams == {Para(run) : run \in NestedRuns}

U == <<"u">>

\* an image token: the alt text is its content, the URL its src attribute
Image(alt, attrs) == [Tok("image") EXCEPT !.content = alt, !.attrs = attrs]

LinkOpen(attrs) == [Tok("link_open") EXCEPT !.attrs = attrs]

\* links, images and strikethrough: an image with an alt text and a URL,
\* with a URL only, with an empty URL ("![a]()"), with no src attribute; a
\* link with a URL, with an empty URL ("[a]()")
RichTokens ==
    ChildTokens
    \cup {Image(A, <<<<"src", U>>, <<"alt", <<>>>>>>),
          Image(<<>>, <<<<"src", U>>, <<"alt", <<>>>>>>),
          Image(A, <<<<"src", <<>>>>, <<"alt", <<>>>>>>),
          Image(A, <<<<"alt", <<>>>>>>),
          LinkOpen(<<<<"href", U>>>>),
          LinkOpen(<<<<"href", <<>>>>>>),
          Tok("link_close"), Tok("s_open"), Tok("s_close")}

RECURSIVE RichRuns(_)
RichRuns(n) ==
    IF n = 0 THEN {<<>>}
    ELSE {Append(r, c) : r \in RichRuns(n - 1), c \in RichTokens}

\* a code span inside a mark; a mark closed while a mark opened after it is
\* still open; texts, breaks, an image and a code span in one run
LongRuns ==
    {<<Tok("strong_open"), Text(A), [Tok("code_inline") EXCEPT !.content = B],
       Text(A), Tok("strong_close")>>,
     <<Tok("strong_open"), Tok("em_open"), Tok("strong_close"), Text(A),
       Tok("em_close")>>,
     <<Tok("s_open"), LinkOpen(<<<<"href", U>>>>), Tok("s_close"), Text(A),
       Tok("link_close")>>,
     <<LinkOpen(<<<<"href", U>>>>), Tok("em_open"), Tok("link_close"), Text(A),
       Tok("em_close")>>,
     <<Text(A), Tok("softbreak"), Tok("strong_open"), Text(B), Tok("hardbreak"),
       Image(A, <<<<"src", U>>, <<"alt", <<>>>>>>),
       [Tok("code_inline") EXCEPT !.content = B], Text(A), Tok("strong_close"),
       Text(B), Tok("hardbreak")>>}

RichStreams ==
    {Para(run) : run \in LongRuns \cup UNION {RichRuns(n) : n \in 0..MaxRichLen}}

\* a heading of a level: the tag is "h" and a digit
HeadingStream(d) ==
    <<HeadingOpen(<<"h", d>>), Inline(<<Text(A)>>), Tok("heading_close")>>

HeadingStreams == {HeadingStream(d) : d \in {"1", "6"}}

\* tokens the builder has no branch for, and the html tokens it skips
SkippedTokens == {Tok("html_block"), Tok("html_inline"), Tok("front_matter")}

\* skipped tokens between leaf blocks
RECURSIVE SkippedBlocks(_)
SkippedBlocks(n) ==
    IF n = 0 THEN {<<>>}
    ELSE {<<t>> \o rest : t \in SkippedTokens \cup {Tok("hr")},
                          rest \in SkippedBlocks(n - 1)}
         \cup (IF n >= 3
               THEN {Para(<<Text(A)>>) \o rest : rest \in SkippedBlocks(n - 3)}
               ELSE {})

SkippedStreams == UNION {SkippedBlocks(n) : n \in 0..MaxSkippedLen}

\* what md.parse can return
BalancedStreams ==
    ListStreams \cup TableStreams \cup MixedStreams \cup InlineStreams
    \cup NestedStreams \cup HeadingStreams \cup SkippedStreams \cup RichStreams

\* the open and close tokens of the containers
OpenTypes ==
    {"paragraph_open", "heading_open", "bullet_list_open", "ordered_list_open",
     "list_item_open", "blockquote_open", "table_open", "thead_open",
     "tbody_open", "tr_open", "th_open", "td_open"}

CloseOf(t) ==
    CASE t = "paragraph_open"    -> "paragraph_close"
      [] t = "heading_open"      -> "heading_close"
      [] t = "bullet_list_open"  -> "bullet_list_close"
      [] t = "ordered_list_open" -> "ordered_list_close"
      [] t = "list_item_open"    -> "list_item_close"
      [] t = "blockquote_open"   -> "blockquote_close"
      [] t = "table_open"        -> "table_close"
      [] t = "thead_open"        -> "thead_close"
      [] t = "tbody_open"        -> "tbody_close"
      [] t = "tr_open"           -> "tr_close"
      [] t = "th_open"           -> "th_close"
      [] t = "td_open"           -> "td_close"

CloseTypes == {CloseOf(t) : t \in OpenTypes}

RemoveAt(s, k) == SubSeq(s, 1, k - 1) \o SubSeq(s, k + 1, Len(s))

\* a malformed upstream stream: a balanced stream that lost one open or
\* close token
MalformedStreams ==
    {RemoveAt(s[1], s[2]) :
        s \in {x \in {y \in ListStreams \cup TableStreams \cup MixedStreams :
                          Len(y) <= MaxMalformedLen}
                     \X (1..MaxMalformedLen) :
                  /\ x[2] <= Len(x[1])
                  /\ x[1][x[2]].type \in OpenTypes \cup CloseTypes}}

\* heading tokens of an upstream that does not keep to h1..h6
OutOfRangeHeadings == {HeadingStream(d) : d \in {"0", "7", "9"}}

\* what a caller of _tokens_to_adf can pass
UpstreamStreams == MalformedStreams \cup OutOfRangeHeadings

-----------------------------------------------------------------------------
(* Python helpers.                                                          *)

\* str.rstrip('\n')
RECURSIVE rstrip(_)
rstrip(s) ==
    IF s # <<>> /\ s[Len(s)] = "\n" THEN rstrip(SubSeq(s, 1, Len(s) - 1)) ELSE s

\* str.strip(): leading and trailing whitespace removed
RECURSIVE strip(_)
strip(s) ==
    IF s = <<>> THEN s
    ELSE IF s[1] \in {" ", "\n"} THEN strip(Tail(s))
    ELSE IF s[Len(s)] \in {" ", "\n"} THEN strip(SubSeq(s, 1, Len(s) - 1))
    ELSE s

\* [m for m in current_marks if m.get('type') != t]
RECURSIVE WithoutMark(_, _)
WithoutMark(marks, t) ==
    IF marks = <<>> THEN <<>>
    ELSE IF marks[1].type = t THEN WithoutMark(Tail(marks), t)
    ELSE <<marks[1]>> \o WithoutMark(Tail(marks), t)

\* for attr in attrs: if attr[0] == name: value = attr[1]; break
RECURSIVE FirstAttr(_, _)
FirstAttr(attrs, name) ==
    IF attrs = <<>> THEN None
    ELSE IF attrs[1][1] = name THEN attrs[1][2]
    ELSE FirstAttr(Tail(attrs), name)

\* for attr in attrs: if attr[0] == name: value = attr[1]   (no break)
RECURSIVE LastAttr(_, _)
LastAttr(attrs, name) ==
    IF attrs = <<>> THEN None
    ELSE IF attrs[Len(attrs)][1] = name THEN attrs[Len(attrs)][2]
    ELSE LastAttr(SubSeq(attrs, 1, Len(attrs) - 1), name)

\* Python truth value of an optional str
Truthy(s) == s # None /\ s # <<>>

-----------------------------------------------------------------------------
(* _process_inline: one inline token's children -> text / hardBreak nodes.  *)

TextNode(s) == [type |-> "text", text |-> s]

MarkedText(s, marks) == [type |-> "text", text |-> s, marks |-> marks]

\* if current_text: adf_content.append({"type": "text", ...}); current_text = ""
FlushText(st) ==
    IF st.current_text # <<>>
    THEN [st EXCEPT !.adf_content = Append(@, TextNode(st.current_text)),
                    !.current_text = <<>>]
    ELSE st

\* a text outside every mark is emitted at once, one node per token
InlineTextEmitsEach(st, child) ==
    IF st.current_marks # <<>>
    THEN [FlushText(st) EXCEPT
             !.adf_content = Append(@, MarkedText(child.content, st.current_marks))]
    ELSE [st EXCEPT !.adf_content = Append(@, TextNode(child.content))]

InlineText(st, child) ==
    IF st.current_marks # <<>>
    THEN LET flushed ==
                 IF st.current_text # <<>>
                 THEN [st EXCEPT
                          !.adf_content =
                              Append(@, MarkedText(st.current_text, st.current_marks)),
                          !.current_text = <<>>]
                 ELSE st
         IN [flushed EXCEPT
                !.adf_content = Append(@, MarkedText(child.content, st.current_marks))]
    ELSE [st EXCEPT !.current_text = @ \o child.content]

\* the code span carries the open marks besides its code mark
InlineCodeUnderMarks(st, child) ==
    [FlushText(st) EXCEPT
        !.adf_content =
            Append(@, MarkedText(child.content,
                                 st.current_marks \o <<[type |-> "code"]>>))]

InlineCode(st, child) ==
    [FlushText(st) EXCEPT
        !.adf_content = Append(@, MarkedText(child.content, <<[type |-> "code"]>>))]

\* the opened mark is put in front of the open marks, not behind them
InlineOpenPrepends(st, mark) ==
    [FlushText(st) EXCEPT !.current_marks = <<[type |-> mark]>> \o @]

InlineOpen(st, mark) ==
    [FlushText(st) EXCEPT !.current_marks = Append(@, [type |-> mark])]

\* a close pops the top of the stack, whatever its type
InlineClosePopsTop(st, mark) ==
    [st EXCEPT !.current_marks =
                   IF @ = <<>> THEN <<>> ELSE SubSeq(@, 1, Len(@) - 1)]

InlineClose(st, mark) ==
    [st EXCEPT !.current_marks = WithoutMark(@, mark)]

InlineLinkOpen(st, child) ==
    LET href == FirstAttr(child.attrs, "href")
    IN IF Truthy(href)
       THEN [FlushText(st) EXCEPT
                !.current_marks =
                    Append(@, [type |-> "link", attrs |-> [href |-> href]])]
       ELSE FlushText(st)

InlineImage(st, child) ==
    LET src == LastAttr(child.attrs, "src")
        alt == child.content
    IN IF Truthy(src)
       THEN [FlushText(st) EXCEPT
                !.adf_content =
                    Append(@, TextNode(<<"[Image: ">> \o
                                       (IF alt # <<>> THEN alt ELSE src) \o <<"]">>))]
       ELSE FlushText(st)

InlineSoftbreak(st) == [st EXCEPT !.current_text = @ \o <<"\n">>]

\* the break is emitted ahead of the text pending before it
InlineHardbreakAhead(st) ==
    [st EXCEPT !.adf_content = Append(@, [type |-> "hardBreak"])]

InlineHardbreak(st) ==
    [FlushText(st) EXCEPT !.adf_content = Append(@, [type |-> "hardBreak"])]

\* one iteration of "for child in token.children"
InlineStep(st, child) ==
    CASE child.type = "text"         -> InlineText(st, child)
      [] child.type = "code_inline"  -> InlineCode(st, child)
      [] child.type = "strong_open"  -> InlineOpen(st, "strong")
      [] child.type = "strong_close" -> InlineClose(st, "strong")
      [] child.type = "em_open"      -> InlineOpen(st, "em")
      [] child.type = "em_close"     -> InlineClose(st, "em")
      [] child.type = "s_open"       -> InlineOpen(st, "strike")
      [] child.type = "s_close"      -> InlineClose(st, "strike")
      [] child.type = "link_open"    -> InlineLinkOpen(st, child)
      [] child.type = "link_close"   -> InlineClose(st, "link")
      [] child.type = "image"        -> InlineImage(st, child)
      [] child.type = "softbreak"    -> InlineSoftbreak(st)
      [] child.type = "hardbreak"    -> InlineHardbreak(st)
      [] OTHER                       -> st

RECURSIVE InlineLoop(_, _, _)
InlineLoop(children, k, st) ==
    IF k > Len(children) THEN st
    ELSE InlineLoop(children, k + 1, InlineStep(st, children[k]))

InlineStart == [adf_content |-> <<>>, current_text |-> <<>>, current_marks |-> <<>>]

_process_inline(token) ==
    IF token.type # "inline" \/ token.children = <<>>
    THEN <<>>
    ELSE FlushText(InlineLoop(token.children, 1, InlineStart)).adf_content

-----------------------------------------------------------------------------
(* _tokens_to_adf: the call stack.  A frame holds the locals of one call;   *)
(* `at` names the loop the call is in.                                      *)

NewFrame(toks) ==
    [tokens |-> toks, i |-> 1, adf_nodes |-> <<>>, at |-> "main",
     list_type |-> "", list_close |-> "", list_items |-> <<>>,
     quote_content |-> <<>>, table_rows |-> <<>>, cells |-> <<>>,
     is_header_row |-> FALSE]

Top == stack[Len(stack)]

\* the running call is in loop `at` and its guard "i < len(tokens)" holds
InLoop(at) ==
    /\ pc = "build"
    /\ Top.at = at
    /\ Top.i <= Len(Top.tokens)

Cur == Top.tokens[Top.i]

\* the guard "i < len(tokens) and tokens[i].type != close" is false
LoopLeft(close) == IF Top.i > Len(Top.tokens) THEN TRUE ELSE Cur.type = close

\* adf_nodes is shared by the calls: writing it in the running call writes
\* it in the call of the other thread as well
SetTopShared(f) ==
    /\ stack' = [stack EXCEPT ![Len(stack)] = f]
    /\ other' = IF other.phase = "both"
                THEN IF other.call.stack # <<>>
                     THEN [other EXCEPT
                              !.call.stack[Len(other.call.stack)].adf_nodes =
                                  f.adf_nodes]
                     ELSE other
                ELSE other
    /\ UNCHANGED <<entry, text, tokens, pc, result, raised, history, args>>

\* the running frame becomes f
SetTop(f) ==
    /\ stack' = [stack EXCEPT ![Len(stack)] = f]
    /\ UNCHANGED <<entry, text, tokens, pc, result, raised, other, history,
                   args>>

\* self._process_inline(tokens[i]) if i < len(tokens) else []
InlineAt(toks, i) == IF i <= Len(toks) THEN _process_inline(toks[i]) ELSE <<>>

\* int(token.tag[1])
DigitValue(c) ==
    CASE c = "0" -> 0 [] c = "1" -> 1 [] c = "2" -> 2 [] c = "3" -> 3
      [] c = "4" -> 4 [] c = "5" -> 5 [] c = "6" -> 6 [] c = "7" -> 7
      [] c = "8" -> 8 [] c = "9" -> 9

\* while i < len(tokens) and tokens[i].type != t: i += 1
RECURSIVE ScanTo(_, _, _)
ScanTo(toks, i, t) ==
    IF i <= Len(toks) /\ toks[i].type # t THEN ScanTo(toks, i + 1, t) ELSE i

MainTypes ==
    {"heading_open", "paragraph_open", "bullet_list_open", "ordered_list_open",
     "fence", "code_block", "blockquote_open", "hr", "table_open",
     "html_block", "html_inline"}

-----------------------------------------------------------------------------
(* The main loop of _tokens_to_adf.                                         *)

Heading ==
    /\ InLoop("main")
    /\ Cur.type = "heading_open"
    /\ LET level_num == DigitValue(Cur.tag[2])
           inline_content == InlineAt(Top.tokens, Top.i + 1)
       IN SetTop([Top EXCEPT
              !.adf_nodes = Append(@, [type |-> "heading",
                                       attrs |-> [level |-> level_num],
                                       content |-> inline_content]),
              !.i = @ + 3])

\* the paragraph node is appended whatever its inline run yields
ParagraphKeepsEmpty ==
    /\ InLoop("main")
    /\ Cur.type = "paragraph_open"
    /\ LET inline_content == InlineAt(Top.tokens, Top.i + 1)
       IN SetTop([Top EXCEPT
              !.adf_nodes = Append(@, [type |-> "paragraph",
                                       content |-> inline_content]),
              !.i = @ + 3])

Paragraph ==
    /\ InLoop("main")
    /\ Cur.type = "paragraph_open"
    /\ LET inline_content == InlineAt(Top.tokens, Top.i + 1)
       IN SetTop([Top EXCEPT
              !.adf_nodes = IF inline_content # <<>>
                            THEN Append(@, [type |-> "paragraph",
                                            content |-> inline_content])
                            ELSE @,
              !.i = @ + 3])

BulletListOpen ==
    /\ InLoop("main")
    /\ Cur.type = "bullet_list_open"
    /\ SetTop([Top EXCEPT !.i = @ + 1, !.list_items = <<>>, !.at = "list",
                          !.list_type = "bulletList",
                          !.list_close = "bullet_list_close"])

OrderedListOpen ==
    /\ InLoop("main")
    /\ Cur.type = "ordered_list_open"
    /\ SetTop([Top EXCEPT !.i = @ + 1, !.list_items = <<>>, !.at = "list",
                          !.list_type = "orderedList",
                          !.list_close = "ordered_list_close"])

CodeBlock ==
    /\ InLoop("main")
    /\ Cur.type \in {"fence", "code_block"}
    /\ LET body == [type |-> "codeBlock",
                    content |-> <<TextNode(rstrip(Cur.content))>>]
           code_block == IF Cur.info # <<>>
                         THEN [type |-> "codeBlock", content |-> body.content,
                               attrs |-> [language |-> strip(Cur.info)]]
                         ELSE body
       IN SetTop([Top EXCEPT !.adf_nodes = Append(@, code_block), !.i = @ + 1])

BlockquoteOpen ==
    /\ InLoop("main")
    /\ Cur.type = "blockquote_open"
    /\ SetTop([Top EXCEPT !.i = @ + 1, !.quote_content = <<>>, !.at = "quote"])

Hr ==
    /\ InLoop("main")
    /\ Cur.type = "hr"
    /\ SetTop([Top EXCEPT !.adf_nodes = Append(@, [type |-> "rule"]), !.i = @ + 1])

TableOpen ==
    /\ InLoop("main")
    /\ Cur.type = "table_open"
    /\ SetTop([Top EXCEPT !.i = @ + 1, !.table_rows = <<>>,
                          !.is_header_row = TRUE, !.at = "table"])

\* an html token is emitted as a text node
HtmlEmitsText ==
    /\ InLoop("main")
    /\ Cur.type \in {"html_block", "html_inline"}
    /\ SetTop([Top EXCEPT !.adf_nodes = Append(@, TextNode(Cur.content)),
                          !.i = @ + 1])

Html ==
    /\ InLoop("main")
    /\ Cur.type \in {"html_block", "html_inline"}
    /\ SetTop([Top EXCEPT !.i = @ + 1])

\* the final else without its "i += 1"
OtherKeepsCursor ==
    /\ InLoop("main")
    /\ Cur.type \notin MainTypes
    /\ SetTop(Top)

\* the final else: any other token, a close token among them
Other ==
    /\ InLoop("main")
    /\ Cur.type \notin MainTypes
    /\ SetTop([Top EXCEPT !.i = @ + 1])

-----------------------------------------------------------------------------
(* The list loop (bullet and ordered lists run the same loop).              *)

\* a list item: its span runs to the next list_item_close (or to the end);
\* the span is converted by a recursive call
ListItem ==
    /\ InLoop("list")
    /\ Cur.type # Top.list_close
    /\ Cur.type = "list_item_open"
    /\ LET item_start == Top.i + 1
           item_end == ScanTo(Top.tokens, item_start, "list_item_close")
       IN stack' = [stack EXCEPT ![Len(stack)].i = item_end]
                   \o <<NewFrame(SubSeq(Top.tokens, item_start, item_end - 1))>>
    /\ UNCHANGED <<entry, text, tokens, pc, result, raised, other, history,
                   args>>

ListSkip ==
    /\ InLoop("list")
    /\ Cur.type # Top.list_close
    /\ Cur.type # "list_item_open"
    /\ SetTop([Top EXCEPT !.i = @ + 1])

\* the loop is left at the list's close token or at the end of the tokens
ListEnd ==
    /\ pc = "build"
    /\ Top.at = "list"
    /\ LoopLeft(Top.list_close)
    /\ SetTop([Top EXCEPT
           !.adf_nodes = Append(@, [type |-> Top.list_type,
                                    content |-> Top.list_items]),
           !.i = @ + 1,
           !.at = "main"])

-----------------------------------------------------------------------------
(* The blockquote loop: one recursive call per token.                       *)

QuoteToken ==
    /\ InLoop("quote")
    /\ Cur.type # "blockquote_close"
    /\ stack' = stack \o <<NewFrame(<<Cur>>)>>
    /\ UNCHANGED <<entry, text, tokens, pc, result, raised, other, history,
                   args>>

QuoteEnd ==
    /\ pc = "build"
    /\ Top.at = "quote"
    /\ LoopLeft("blockquote_close")
    /\ SetTop([Top EXCEPT
           !.adf_nodes = Append(@, [type |-> "blockquote",
                                    content |-> Top.quote_content]),
           !.i = @ + 1,
           !.at = "main"])

-----------------------------------------------------------------------------
(* The table loop and, inside it, the row loop.                             *)

TableSectionOpen ==
    /\ InLoop("table")
    /\ Cur.type \in {"thead_open", "tbody_open"}
    /\ SetTop([Top EXCEPT !.i = @ + 1])

\* thead_close leaves is_header_row as it is
TableSectionCloseKeepsHeader ==
    /\ InLoop("table")
    /\ Cur.type \in {"thead_close", "tbody_close"}
    /\ SetTop([Top EXCEPT !.i = @ + 1])

TableSectionClose ==
    /\ InLoop("table")
    /\ Cur.type \in {"thead_close", "tbody_close"}
    /\ SetTop([Top EXCEPT
           !.is_header_row = IF Cur.type = "thead_close" THEN FALSE ELSE @,
           !.i = @ + 1])

RowOpen ==
    /\ InLoop("table")
    /\ Cur.type = "tr_open"
    /\ SetTop([Top EXCEPT !.i = @ + 1, !.cells = <<>>, !.at = "row"])

TableSkip ==
    /\ InLoop("table")
    /\ Cur.type \notin {"table_close", "thead_open", "tbody_open",
                        "thead_close", "tbody_close", "tr_open"}
    /\ SetTop([Top EXCEPT !.i = @ + 1])

TableEnd ==
    /\ pc = "build"
    /\ Top.at = "table"
    /\ LoopLeft("table_close")
    /\ SetTop([Top EXCEPT
           !.adf_nodes = IF Top.table_rows # <<>>
                         THEN Append(@, [type |-> "table",
                                         content |-> Top.table_rows])
                         ELSE @,
           !.i = @ + 1,
           !.at = "main"])

\* "tableHeader" if is_header_row else "tableCell"
CellType(is_header_row) == IF is_header_row THEN "tableHeader" ELSE "tableCell"

Cell ==
    /\ InLoop("row")
    /\ Cur.type \in {"th_open", "td_open"}
    /\ LET j == Top.i + 1
           has_inline == j <= Len(Top.tokens) /\ Top.tokens[j].type = "inline"
           cell_inline == IF has_inline THEN _process_inline(Top.tokens[j]) ELSE <<>>
           cell_content == IF cell_inline # <<>>
                           THEN <<[type |-> "paragraph", content |-> cell_inline]>>
                           ELSE <<>>
       IN SetTop([Top EXCEPT
              !.cells = Append(@, [type |-> CellType(Top.is_header_row),
                                   content |-> cell_content]),
              !.i = (IF has_inline THEN j + 1 ELSE j) + 1])

RowSkip ==
    /\ InLoop("row")
    /\ Cur.type \notin {"tr_close", "th_open", "td_open"}
    /\ SetTop([Top EXCEPT !.i = @ + 1])

RowEnd ==
    /\ pc = "build"
    /\ Top.at = "row"
    /\ LoopLeft("tr_close")
    /\ SetTop([Top EXCEPT
           !.table_rows = IF Top.cells # <<>>
                          THEN Append(@, [type |-> "tableRow", content |-> Top.cells])
                          ELSE @,
           !.i = @ + 1,
           !.at = "table"])

-----------------------------------------------------------------------------
(* return adf_nodes                                                         *)

Returning ==
    /\ pc = "build"
    /\ Top.at = "main"
    /\ Top.i > Len(Top.tokens)

Caller == stack[Len(stack) - 1]

\* to the list loop: the nodes are the content of a listItem
ReturnItem ==
    /\ Returning
    /\ Len(stack) > 1
    /\ Caller.at = "list"
    /\ stack' = [SubSeq(stack, 1, Len(stack) - 1) EXCEPT
                    ![Len(stack) - 1] =
                        [Caller EXCEPT
                            !.list_items = Append(@, [type |-> "listItem",
                                                      content |-> Top.adf_nodes]),
                            !.i = @ + 1]]
    /\ UNCHANGED <<entry, text, tokens, pc, result, raised, other, history,
                   args>>

\* to the blockquote loop: quote_content.extend(quote_nodes)
ReturnQuote ==
    /\ Returning
    /\ Len(stack) > 1
    /\ Caller.at = "quote"
    /\ stack' = [SubSeq(stack, 1, Len(stack) - 1) EXCEPT
                    ![Len(stack) - 1] =
                        [Caller EXCEPT
                            !.quote_content = @ \o Top.adf_nodes,
                            !.i = @ + 1]]
    /\ UNCHANGED <<entry, text, tokens, pc, result, raised, other, history,
                   args>>

\* an empty node list leaves the root without its content
DocNoContentWhenEmpty(content) ==
    IF content = <<>>
    THEN [type |-> "doc", version |-> 1]
    ELSE [type |-> "doc", version |-> 1, content |-> content]

Doc(content) == [type |-> "doc", version |-> 1, content |-> content]

\* to _convert_to_adf, which wraps the nodes in the doc root
ReturnDoc ==
    /\ Returning
    /\ Len(stack) = 1
    /\ entry = "_convert_to_adf"
    /\ result' = Doc(Top.adf_nodes)
    /\ pc' = "done"
    /\ stack' = <<>>
    /\ UNCHANGED <<entry, text, tokens, raised, other, history, args>>

\* to a caller of _tokens_to_adf itself
ReturnNodes ==
    /\ Returning
    /\ Len(stack) = 1
    /\ entry = "_tokens_to_adf"
    /\ result' = Top.adf_nodes
    /\ pc' = "done"
    /\ stack' = <<>>
    /\ UNCHANGED <<entry, text, tokens, raised, other, history, args>>

-----------------------------------------------------------------------------
(* _convert_to_adf                                                          *)

\* if not text: return the empty document
ConvertEmpty ==
    /\ pc = "convert"
    /\ text \in {None, <<>>}
    /\ result' = Doc(<<>>)
    /\ pc' = "done"
    /\ UNCHANGED <<entry, text, tokens, stack, raised, other, history, args>>

\* tokens = md.parse(text); adf_content = self._tokens_to_adf(tokens)
Parse ==
    /\ pc = "convert"
    /\ text \notin {None, <<>>}
    /\ stack' = <<NewFrame(tokens)>>
    /\ pc' = "build"
    /\ UNCHANGED <<entry, text, tokens, result, raised, other, history, args>>

-----------------------------------------------------------------------------
(* One call: _convert_to_adf on a text that md.parse turns into a balanced  *)
(* stream, or _tokens_to_adf itself on a malformed stream.                  *)

\* no second call
NoOther == [phase |-> "single"]

Init ==
    /\ result = None
    /\ raised = None
    /\ other = NoOther
    /\ history = <<>>
    /\ args = <<>>
    /\ \/ /\ entry = "_convert_to_adf"
          /\ pc = "convert"
          /\ stack = <<>>
          /\ \/ text \in {None, <<>>} /\ tokens = <<>>
             \/ text = <<"m", "d">> /\ tokens \in BalancedStreams
       \/ /\ entry = "_tokens_to_adf"
          /\ pc = "build"
          /\ text = None
          /\ tokens \in UpstreamStreams
          /\ stack = <<NewFrame(tokens)>>

Next ==
    \/ ConvertEmpty
    \/ Parse
    \/ Heading
    \/ Paragraph
    \/ BulletListOpen
    \/ OrderedListOpen
    \/ CodeBlock
    \/ BlockquoteOpen
    \/ Hr
    \/ TableOpen
    \/ Html
    \/ Other
    \/ ListItem
    \/ ListSkip
    \/ ListEnd
    \/ QuoteToken
    \/ QuoteEnd
    \/ TableSectionOpen
    \/ TableSectionClose
    \/ RowOpen
    \/ TableSkip
    \/ TableEnd
    \/ Cell
    \/ RowSkip
    \/ RowEnd
    \/ ReturnItem
    \/ ReturnQuote
    \/ ReturnDoc
    \/ ReturnNodes

Spec == Init /\ [][Next]_vars

SpecFair == Spec /\ WF_vars(Next)

-----------------------------------------------------------------------------
(* Two calls in two threads.  Each call has its own arguments and locals;   *)
(* the thread that is not scheduled keeps them in `other`.  Each call is    *)
(* first run alone, then the two are started again and run interleaved.     *)

\* a call that has not taken a step
CallOf(e, txt, toks) ==
    [entry |-> e, text |-> txt, tokens |-> toks,
     stack |-> IF e = "_tokens_to_adf" THEN <<NewFrame(toks)>> ELSE <<>>,
     pc |-> IF e = "_tokens_to_adf" THEN "build" ELSE "convert",
     result |-> None, raised |-> None]

\* a heading, a paragraph, lists, a code block, a rule and skipped tokens
LeafAndListStream ==
    HeadingStream("2") \o Para(<<Text(A)>>)
    \o <<Tok("bullet_list_open"), Tok("list_item_open")>> \o Para(<<Text(B)>>)
    \o <<Tok("list_item_close"), Tok("bullet_list_close"),
         Tok("ordered_list_open"), Tok("ordered_list_close"),
         Fence(<<"a", "\n">>, <<"p", "y">>), Tok("hr"), Tok("html_block"),
         Tok("front_matter")>>

\* a blockquote and a table with a header row and a body row
QuoteAndTableStream ==
    <<Tok("blockquote_open"), Tok("hr"), Tok("blockquote_close"),
      Tok("table_open"),
      Tok("thead_open"), Tok("tr_open"),
      Tok("th_open"), Inline(<<Text(A)>>), Tok("th_close"),
      Tok("tr_close"), Tok("thead_close"),
      Tok("tbody_open"), Tok("tr_open"),
      Tok("td_open"), Inline(<<Text(B)>>), Tok("td_close"),
      Tok("tr_close"), Tok("tbody_close"),
      Tok("table_close")>>

\* streams that lost their list_item_open, their tr_open, their td_open
LostOpenStreams ==
    {<<Tok("bullet_list_open"), Tok("list_item_close"), Tok("bullet_list_close")>>,
     <<Tok("table_open"), Tok("td_open"), Inline(<<Text(A)>>), Tok("td_close"),
       Tok("tr_close"), Tok("table_close")>>,
     <<Tok("table_open"), Tok("tr_open"), Inline(<<Text(A)>>), Tok("td_close"),
       Tok("tr_close"), Tok("table_close")>>}

\* the calls the two threads make
TwoCalls ==
    {CallOf("_convert_to_adf", <<>>, <<>>),
     CallOf("_convert_to_adf", <<"m", "d">>, LeafAndListStream),
     CallOf("_convert_to_adf", <<"m", "d">>, QuoteAndTableStream)}
    \cup {CallOf("_tokens_to_adf", None, toks) : toks \in LostOpenStreams}

\* the arguments, locals and outcome of the scheduled call
Running ==
    [entry |-> entry, text |-> text, tokens |-> tokens, stack |-> stack,
     pc |-> pc, result |-> result, raised |-> raised]

\* what a finished call hands to its caller
Outcome(call) == <<call.result, call.raised>>

\* a call under way: it has taken a step and has not returned
UnderWay(call) == call.pc = "build" /\ call.stack[1].i > 1

\* the thread of call c is scheduled: its arguments and locals are in place
Resume(c) ==
    /\ entry' = c.entry
    /\ text' = c.text
    /\ tokens' = c.tokens
    /\ stack' = c.stack
    /\ pc' = c.pc
    /\ result' = c.result
    /\ raised' = c.raised
    /\ UNCHANGED <<history, args>>

\* a call that ran alone has returned: its outcome is kept; after the first
\* call the second one is run alone, after the second both are started again
AloneReturn ==
    /\ other.phase \in {"alone1", "alone2"}
    /\ pc = "done"
    /\ other' = [other EXCEPT
                    !.phase = IF @ = "alone1" THEN "alone2" ELSE "both",
                    !.id = 3 - @,
                    !.call = other.calls[other.id],
                    !.alone = Append(@, Outcome(Running))]
    /\ Resume(other.calls[3 - other.id])

\* the scheduler takes the running thread off and puts the other thread on
Switch ==
    /\ other.phase = "both"
    /\ other.call.pc # "done"
    /\ other' = [other EXCEPT
                    !.id = 3 - @,
                    !.call = Running,
                    !.mixed = @ \/ (UnderWay(Running) /\ UnderWay(other.call))]
    /\ Resume(other.call)

\* the thread of call c is the scheduled one at the start
Scheduled(c) ==
    /\ entry = c.entry
    /\ text = c.text
    /\ tokens = c.tokens
    /\ stack = c.stack
    /\ pc = c.pc
    /\ result = c.result
    /\ raised = c.raised

InitTwo ==
    \E c1 \in TwoCalls, c2 \in TwoCalls :
        /\ Scheduled(c1)
        /\ history = <<>>
        /\ args = <<>>
        /\ other = [phase |-> "alone1", id |-> 1, call |-> c2,
                    calls |-> <<c1, c2>>, alone |-> <<>>, mixed |-> FALSE]

NextTwo ==
    \/ Next
    \/ AloneReturn
    \/ Switch

SpecTwo == InitTwo /\ [][NextTwo]_vars

-----------------------------------------------------------------------------
(* Notions the properties are stated in.                                    *)

Done == pc = "done"

\* _convert_to_adf has returned the document of a parsed text
Converted == Done /\ entry = "_convert_to_adf" /\ text \notin {None, <<>>}

\* the index of the close token matching the open token at i, Len + 1 when
\* there is none: every open token in between is closed before it
RECURSIVE MatchFrom(_, _, _)
MatchFrom(toks, j, depth) ==
    IF j > Len(toks) THEN j
    ELSE IF toks[j].type \in OpenTypes THEN MatchFrom(toks, j + 1, depth + 1)
    ELSE IF toks[j].type \in CloseTypes
         THEN IF depth = 0 THEN j ELSE MatchFrom(toks, j + 1, depth - 1)
    ELSE MatchFrom(toks, j + 1, depth)

MatchClose(toks, i) == MatchFrom(toks, i + 1, 0)

\* the indices of the tokens that start a block directly inside toks[a..b]
RECURSIVE BlockStarts(_, _, _)
BlockStarts(toks, a, b) ==
    IF a > b THEN {}
    ELSE IF toks[a].type \in OpenTypes
         THEN {a} \cup BlockStarts(toks, MatchClose(toks, a) + 1, b)
    ELSE {a} \cup BlockStarts(toks, a + 1, b)

\* the walk over a stream with the stack of the open tokens' indices: the
\* close tokens no open token on the stack matches, and the open tokens
\* that are closed by no token
RECURSIVE Brackets(_, _, _, _, _)
Brackets(toks, j, open, stray, unclosed) ==
    IF j > Len(toks)
    THEN [stray |-> stray, unclosed |-> unclosed \cup {open[k] : k \in DOMAIN open}]
    ELSE IF toks[j].type \in OpenTypes
         THEN Brackets(toks, j + 1, Append(open, j), stray, unclosed)
    ELSE IF toks[j].type \in CloseTypes
         THEN LET hits == {k \in DOMAIN open : CloseOf(toks[open[k]].type) = toks[j].type}
              IN IF hits = {}
                 THEN Brackets(toks, j + 1, open, stray \cup {j}, unclosed)
                 ELSE LET m == CHOOSE k \in hits : \A h \in hits : h <= k
                      IN Brackets(toks, j + 1, SubSeq(open, 1, m - 1), stray,
                                  unclosed \cup {open[k] : k \in (m + 1)..Len(open)})
    ELSE Brackets(toks, j + 1, open, stray, unclosed)

StrayCloses(toks) == Brackets(toks, 1, <<>>, {}, {}).stray

UnclosedOpens(toks) == Brackets(toks, 1, <<>>, {}, {}).unclosed

Balanced(toks) == StrayCloses(toks) = {} /\ UnclosedOpens(toks) = {}

Min(S) == CHOOSE x \in S : \A y \in S : x <= y

HasContent(node) == "content" \in DOMAIN node

-----------------------------------------------------------------------------
(* Malformed streams.                                                       *)

StructuralError(toks, p) == <<"StructuralError", toks[p].type, p>>

\* C1: when the builder meets a close token that no open token matches, the
\* call ends in a StructuralError that names that token's kind and stream
\* position, and no tree is returned to the caller.
C1_StrayCloseRaises ==
    (Done /\ entry = "_tokens_to_adf" /\ StrayCloses(tokens) # {}) =>
        /\ raised = StructuralError(tokens, Min(StrayCloses(tokens)))
        /\ result = None

ContainerOpens ==
    {"bullet_list_open", "ordered_list_open", "list_item_open", "blockquote_open",
     "table_open", "tr_open", "th_open", "td_open"}

UnclosedContainers(toks) ==
    {p \in UnclosedOpens(toks) : toks[p].type \in ContainerOpens}

\* C2: when the stream ends while a list, list item, blockquote, table, row
\* or cell is still open, the call ends in a StructuralError and returns no
\* tree built from the truncated container.
C2_UnclosedOpenRaises ==
    (Done /\ entry = "_tokens_to_adf" /\ UnclosedContainers(tokens) # {}) =>
        /\ raised # None
        /\ raised[1] = "StructuralError"
        /\ result = None

-----------------------------------------------------------------------------
(* Tables: header and body cells.                                           *)

\* the types of the cell nodes of a node list, in document order
RECURSIVE CellTypesIn(_)
CellTypesIn(nodes) ==
    IF nodes = <<>> THEN <<>>
    ELSE (IF nodes[1].type \in {"tableHeader", "tableCell"} THEN <<nodes[1].type>>
          ELSE IF HasContent(nodes[1]) THEN CellTypesIn(nodes[1].content)
          ELSE <<>>)
         \o CellTypesIn(Tail(nodes))

\* the type each cell token of a stream is to be emitted with: tableHeader
\* between thead_open and thead_close, tableCell everywhere else
RECURSIVE HeaderSplit(_, _, _)
HeaderSplit(toks, j, in_head) ==
    IF j > Len(toks) THEN <<>>
    ELSE IF toks[j].type = "thead_open" THEN HeaderSplit(toks, j + 1, TRUE)
    ELSE IF toks[j].type \in {"thead_close", "table_open", "table_close"}
         THEN HeaderSplit(toks, j + 1, FALSE)
    ELSE IF toks[j].type \in {"th_open", "td_open"}
         THEN <<IF in_head THEN "tableHeader" ELSE "tableCell">>
              \o HeaderSplit(toks, j + 1, in_head)
    ELSE HeaderSplit(toks, j + 1, in_head)

TypesAt(toks, t) == {k \in DOMAIN toks : toks[k].type = t}

\* every table of the stream has a thead section / no table has one
EveryTableHasThead(toks) ==
    /\ TypesAt(toks, "table_open") # {}
    /\ \A k \in TypesAt(toks, "table_open") :
           \E j \in TypesAt(toks, "thead_open") : k < j /\ j < MatchClose(toks, k)

NoTableHasThead(toks) ==
    /\ TypesAt(toks, "table_open") # {}
    /\ TypesAt(toks, "thead_open") = {}

\* C3: in a table whose stream has no thead section every cell is emitted
\* as tableCell, none as tableHeader.
C3_NoTheadAllTableCell ==
    (Converted /\ NoTableHasThead(tokens)) =>
        \A k \in DOMAIN CellTypesIn(result.content) :
            CellTypesIn(result.content)[k] = "tableCell"

\* C4: in a table whose stream has a thead section a cell is emitted as
\* tableHeader exactly when its row lies between thead_open and thead_close;
\* the cells of the rows after thead_close are emitted as tableCell, be their
\* token th_open or td_open.
C4_HeaderCellsOnlyInThead ==
    (Converted /\ EveryTableHasThead(tokens)) =>
        CellTypesIn(result.content) = HeaderSplit(tokens, 1, FALSE)

\* a table with a header cell and, after thead_close, a th_open cell
C4_Witness ==
    /\ Converted
    /\ EveryTableHasThead(tokens)
    /\ \E j \in TypesAt(tokens, "thead_close"), k \in TypesAt(tokens, "th_open") : j < k
    /\ \E j \in TypesAt(tokens, "thead_close"), k \in TypesAt(tokens, "th_open") : k < j
    /\ CellTypesIn(result.content) = <<"tableHeader", "tableCell">>

-----------------------------------------------------------------------------
(* The root node.                                                           *)

\* C5: for every text, the empty string included, _convert_to_adf returns a
\* root node of type doc with version 1 and a content that is a sequence of
\* nodes (possibly empty), never None and never missing.
C5_DocRoot ==
    (Done /\ entry = "_convert_to_adf") =>
        /\ DOMAIN result = {"type", "version", "content"}
        /\ result.type = "doc"
        /\ result.version = 1
        /\ DOMAIN result.content = 1..Len(result.content)
        /\ \A k \in DOMAIN result.content : "type" \in DOMAIN result.content[k]

\* the empty string is converted to the empty document
C5_Witness ==
    /\ Done
    /\ entry = "_convert_to_adf"
    /\ text = <<>>
    /\ result.content = <<>>

-----------------------------------------------------------------------------
(* Lists and top-level blocks.                                              *)

HasType(nodes, t) == \E k \in DOMAIN nodes : nodes[k].type = t

\* the stream starts with a bullet list whose first item holds, directly in
\* its span, an ordered list
FirstItemHoldsOrderedList(toks) ==
    /\ Len(toks) >= 2
    /\ toks[1].type = "bullet_list_open"
    /\ toks[2].type = "list_item_open"
    /\ \E k \in BlockStarts(toks, 3, MatchClose(toks, 2) - 1) :
           toks[k].type = "ordered_list_open"

\* C6: a bullet list item whose token span contains a nested ordered list
\* yields a listItem node whose content includes a node of type orderedList.
C6_NestedOrderedList ==
    (Converted /\ FirstItemHoldsOrderedList(tokens)) =>
        /\ Len(result.content) >= 1
        /\ result.content[1].type = "bulletList"
        /\ Len(result.content[1].content) >= 1
        /\ result.content[1].content[1].type = "listItem"
        /\ HasType(result.content[1].content[1].content, "orderedList")

\* a block that is to appear in the output: a container, a leaf block, or a
\* paragraph whose inline run resolves to at least one node (html_block is
\* skipped, an empty paragraph is dropped)
CompletedBlock(toks, k) ==
    \/ toks[k].type \in {"heading_open", "bullet_list_open", "ordered_list_open",
                         "blockquote_open", "table_open", "fence", "code_block",
                         "hr"}
    \/ toks[k].type = "paragraph_open" /\ InlineAt(toks, k + 1) # <<>>

TopLevelBlocks(toks) ==
    Cardinality({k \in BlockStarts(toks, 1, Len(toks)) : CompletedBlock(toks, k)})

\* C7: for every balanced stream the content of the returned doc node has
\* exactly as many nodes as the stream has top-level completed blocks.
C7_ContentLength ==
    Converted => Len(result.content) = TopLevelBlocks(tokens)

-----------------------------------------------------------------------------
(* Termination.                                                             *)

\* a step of the builder: a loop iteration moves the cursor of the running
\* call forward, a recursive call is on a strictly shorter token list, a
\* return moves the caller's cursor forward
Progress ==
    \/ pc = "convert"
    \/ pc' = "done"
    \/ /\ Len(stack') = Len(stack)
       /\ stack'[Len(stack')].i > Top.i
    \/ /\ Len(stack') = Len(stack) + 1
       /\ Len(stack'[Len(stack')].tokens) < Len(Top.tokens)
       /\ stack'[Len(stack)].i >= Top.i
    \/ /\ Len(stack') = Len(stack) - 1
       /\ stack'[Len(stack')].i > Caller.i

\* C8: the builder terminates on every stream, the balanced ones among
\* them: every loop iteration advances the read cursor, recursion is only
\* on strictly shorter sub-sequences, and the conversion reaches its return.
C8_Terminates == [][Progress]_vars /\ <>Done

\* the document of a balanced stream with a list inside a list item, which
\* takes calls two deep, has been returned
C8_Witness ==
    /\ Converted
    /\ Balanced(tokens)
    /\ \E k \in TypesAt(tokens, "list_item_open") :
           \E j \in TypesAt(tokens, "list_item_open") :
               k < j /\ j < MatchClose(tokens, k)
    /\ Len(result.content) >= 1

-----------------------------------------------------------------------------
(* Text nodes and empty containers.                                         *)

RECURSIVE NoEmptyText(_)
NoEmptyText(nodes) ==
    \A k \in DOMAIN nodes :
        IF nodes[k].type = "text" THEN nodes[k].text # <<>>
        ELSE IF HasContent(nodes[k]) THEN NoEmptyText(nodes[k].content)
        ELSE TRUE

\* C9: no text node with an empty string is emitted (the image placeholder,
\* which is never empty, aside): not for a text token under open marks, not
\* for a code span, not for the text node of a codeBlock.
C9_NoEmptyTextNode ==
    Converted => NoEmptyText(result.content)

\* the stream is one table without rows / one list without items
ZeroRowTable(toks) ==
    /\ Len(toks) >= 2
    /\ toks[1].type = "table_open"
    /\ MatchClose(toks, 1) = Len(toks)
    /\ TypesAt(toks, "tr_open") = {}

ZeroItemList(toks, open) ==
    /\ Len(toks) = 2
    /\ toks[1].type = open
    /\ toks[2].type = CloseOf(open)

EmptyNode(t) == [type |-> t, content |-> <<>>]

\* C10: a table span with zero rows yields a table node with an empty
\* content, a list span with zero items yields a bulletList or orderedList
\* node with an empty content; the container node is never left out.
C10_EmptyContainersKept ==
    Converted =>
        /\ ZeroRowTable(tokens) => result.content = <<EmptyNode("table")>>
        /\ ZeroItemList(tokens, "bullet_list_open") =>
               result.content = <<EmptyNode("bulletList")>>
        /\ ZeroItemList(tokens, "ordered_list_open") =>
               result.content = <<EmptyNode("orderedList")>>

-----------------------------------------------------------------------------
(* Inline runs: what a paragraph's inline token turns into.                 *)

\* the stream is one paragraph
LoneParagraph(toks) ==
    /\ Len(toks) = 3
    /\ toks[1].type = "paragraph_open"
    /\ toks[2].type = "inline"
    /\ toks[3].type = "paragraph_close"

\* a softbreak, or a text of whitespace only
BlankChild(c) ==
    \/ c.type = "softbreak"
    \/ c.type = "text" /\ strip(c.content) = <<>>

BlankRun(run) == run # <<>> /\ \A k \in DOMAIN run : BlankChild(run[k])

\* C11: an inline run of softbreaks and whitespace-only texts yields no node
\* from the inline processor, and the paragraph around it does not appear in
\* its parent's content.
C11_BlankRunSuppressed ==
    (Converted /\ LoneParagraph(tokens) /\ BlankRun(tokens[2].children)) =>
        /\ _process_inline(tokens[2]) = <<>>
        /\ result.content = <<>>

\* the mark types of a node, in the order the node lists them
MarkTypes(node) ==
    IF "marks" \in DOMAIN node
    THEN [k \in DOMAIN node.marks |-> node.marks[k].type]
    ELSE <<>>

\* the mark an open token opens
MarkOf(t) ==
    CASE t = "strong_open" -> "strong"
      [] t = "em_open"     -> "em"
      [] t = "s_open"      -> "strike"
      [] t = "link_open"   -> "link"

MarkOpens == {"strong_open", "em_open", "s_open", "link_open"}

\* the marks the open tokens of a run open, in the order of the run
RECURSIVE OpenOrder(_)
OpenOrder(run) ==
    IF run = <<>> THEN <<>>
    ELSE (IF run[1].type \in MarkOpens THEN <<MarkOf(run[1].type)>> ELSE <<>>)
         \o OpenOrder(Tail(run))

\* s is t with some elements left out
RECURSIVE IsSubseq(_, _)
IsSubseq(s, t) ==
    IF s = <<>> THEN TRUE
    ELSE IF t = <<>> THEN FALSE
    ELSE IF s[1] = t[1] THEN IsSubseq(Tail(s), Tail(t))
    ELSE IsSubseq(s, Tail(t))

\* "**a *b***": strong_open, text A, em_open, text B, em_close, strong_close
StrongEmRun ==
    <<Tok("strong_open"), Text(A), Tok("em_open"), Text(B), Tok("em_close"),
      Tok("strong_close")>>

\* C12: the run strong_open, text A, em_open, text B, em_close, strong_close
\* yields a text node for A with the marks [strong] and a text node for B
\* with the marks [strong, em]; in every run the marks of a text node (the
\* code mark of a code span aside) are listed in the order they were opened.
C12_MarksInOpenOrder ==
    (Converted /\ LoneParagraph(tokens)) =>
        /\ \A p \in DOMAIN result.content :
               \A k \in DOMAIN result.content[p].content :
                   LET types == MarkTypes(result.content[p].content[k])
                   IN types # <<"code">> =>
                          IsSubseq(types, OpenOrder(tokens[2].children))
        /\ tokens[2].children = StrongEmRun =>
               result.content =
                   <<[type |-> "paragraph",
                      content |-> <<MarkedText(A, <<[type |-> "strong"]>>),
                                    MarkedText(B, <<[type |-> "strong"],
                                                    [type |-> "em"]>>)>>]>>

\* the document of "**a *b***" has been returned, B under both marks
C12_Witness ==
    /\ Converted
    /\ tokens = Para(StrongEmRun)
    /\ Len(result.content) = 1
    /\ Len(result.content[1].content) = 2
    /\ MarkTypes(result.content[1].content[2]) = <<"strong", "em">>

\* a run of text tokens only
TextRun(run) == run # <<>> /\ \A k \in DOMAIN run : run[k].type = "text"

\* the contents of the tokens of a run, joined
RECURSIVE Concat(_)
Concat(run) == IF run = <<>> THEN <<>> ELSE run[1].content \o Concat(Tail(run))

-----------------------------------------------------------------------------
(* Headings.                                                                *)

\* the nodes the finished call has returned
ResultNodes == IF entry = "_convert_to_adf" THEN result.content ELSE result

RECURSIVE LevelsInRange(_)
LevelsInRange(nodes) ==
    \A k \in DOMAIN nodes :
        /\ nodes[k].type = "heading" => nodes[k].attrs.level \in 1..6
        /\ HasContent(nodes[k]) => LevelsInRange(nodes[k].content)

\* C14: every heading node in the output has a level from 1 to 6; a level
\* taken from the token's tag that lies outside that range is clamped into
\* it.
C14_HeadingLevelInRange ==
    Done => LevelsInRange(ResultNodes)

-----------------------------------------------------------------------------
(* Skipped tokens.                                                          *)

\* the token types the main loop builds a node for
Recognised == MainTypes \ {"html_block", "html_inline"}

\* a stream of leaf blocks (rules, paragraphs) and of tokens of other types
LeafStream(toks) ==
    \A k \in DOMAIN toks :
        \/ toks[k].type \notin Recognised \cup OpenTypes \cup CloseTypes \cup {"inline"}
        \/ toks[k].type = "hr"
        \/ /\ toks[k].type = "paragraph_open"
           /\ k + 2 <= Len(toks)
           /\ toks[k + 1].type = "inline"
           /\ toks[k + 2].type = "paragraph_close"
        \/ toks[k].type = "inline" /\ k > 1 /\ toks[k - 1].type = "paragraph_open"
        \/ toks[k].type = "paragraph_close" /\ k > 1 /\ toks[k - 1].type = "inline"

\* the nodes of the leaf blocks of a stream, the other tokens left out
RECURSIVE LeafNodes(_)
LeafNodes(toks) ==
    IF toks = <<>> THEN <<>>
    ELSE IF toks[1].type = "hr"
         THEN <<[type |-> "rule"]>> \o LeafNodes(Tail(toks))
    ELSE IF toks[1].type = "paragraph_open"
         THEN (IF _process_inline(toks[2]) # <<>>
               THEN <<[type |-> "paragraph", content |-> _process_inline(toks[2])]>>
               ELSE <<>>)
              \o LeafNodes(SubSeq(toks, 4, Len(toks)))
    ELSE LeafNodes(Tail(toks))

\* a step of the main loop at a token it builds no node for: the cursor
\* moves to the next token, and nothing else changes
SkipStep ==
    IF pc = "build"
    THEN IF Top.at = "main" /\ Top.i <= Len(Top.tokens)
         THEN Cur.type \notin Recognised =>
                  /\ stack' = [stack EXCEPT ![Len(stack)].i = @ + 1]
                  /\ raised' = raised
                  /\ pc' = pc
         ELSE TRUE
    ELSE TRUE

\* C15: an html_block or html_inline token, and a token of a type the
\* builder has no branch for, produces no node and no error; the conversion
\* goes on with the next token, and the nodes of the other tokens are all in
\* the output.
C15_SkippedTokens ==
    /\ [][SkipStep]_vars
    /\ []((Converted /\ LeafStream(tokens)) =>
              /\ raised = None
              /\ result.content = LeafNodes(tokens))

\* a stream with an html_block, an html_inline and a token of an unknown
\* type around a rule has been converted to the rule alone
C15_Witness ==
    /\ Converted
    /\ Len(tokens) = 4
    /\ \A t \in {"html_block", "html_inline", "front_matter", "hr"} :
           TypesAt(tokens, t) # {}
    /\ result.content = <<[type |-> "rule"]>>

-----------------------------------------------------------------------------
(* List items and blockquotes: the spans handed to the recursive call.      *)

\* the stream is one list
LoneList(toks) ==
    /\ Len(toks) >= 2
    /\ toks[1].type \in {"bullet_list_open", "ordered_list_open"}
    /\ MatchClose(toks, 1) = Len(toks)

\* the list_item_open tokens directly inside the list whose tokens are
\* toks[a..b], in source order
DirectItems(toks, a, b) ==
    {k \in BlockStarts(toks, a + 1, b - 1) : toks[k].type = "list_item_open"}

\* the node of the list toks[a..b] has one listItem per item directly inside
\* the list, and so has every list nested in its items
RECURSIVE ItemsMatch(_, _, _, _)
ItemsMatch(node, toks, a, b) ==
    /\ node.type = (IF toks[a].type = "bullet_list_open"
                    THEN "bulletList" ELSE "orderedList")
    /\ Len(node.content) = Cardinality(DirectItems(toks, a, b))
    /\ \A n \in DOMAIN node.content :
           /\ node.content[n].type = "listItem"
           /\ LET k == CHOOSE k \in DirectItems(toks, a, b) :
                           Cardinality({j \in DirectItems(toks, a, b) : j < k}) = n - 1
                  starts == BlockStarts(toks, k + 1, MatchClose(toks, k) - 1)
                  blocks == {j \in starts : CompletedBlock(toks, j)}
              IN /\ Len(node.content[n].content) = Cardinality(blocks)
                 /\ \A m \in DOMAIN node.content[n].content :
                        LET j == CHOOSE j \in blocks :
                                     Cardinality({h \in blocks : h < j}) = m - 1
                        IN toks[j].type \in {"bullet_list_open", "ordered_list_open"} =>
                               ItemsMatch(node.content[n].content[m], toks, j,
                                          MatchClose(toks, j))

\* C17: for every balanced stream a bulletList or orderedList node has
\* exactly one listItem child per item span directly inside the list, in
\* source order, also when an item holds a nested list of several items: the
\* items of the nested list are children of the nested list, and an outer
\* item after it is a child of the outer list.
C17_ItemsPerList ==
    (Converted /\ LoneList(tokens)) =>
        /\ Len(result.content) = 1
        /\ ItemsMatch(result.content[1], tokens, 1, Len(tokens))

\* the stream starts with a blockquote that holds, directly in its span, at
\* k a paragraph whose inline run yields nodes
QuoteHoldsParagraph(toks, k) ==
    /\ toks # <<>>
    /\ toks[1].type = "blockquote_open"
    /\ k \in BlockStarts(toks, 2, MatchClose(toks, 1) - 1)
    /\ toks[k].type = "paragraph_open"
    /\ InlineAt(toks, k + 1) # <<>>

\* C18: a blockquote span that holds a paragraph with a non-empty inline run
\* yields a blockquote node whose content holds that paragraph node with its
\* text: the blocks between blockquote_open and its blockquote_close become
\* the children of the blockquote node.
C18_QuoteKeepsParagraph ==
    Converted =>
        \A k \in DOMAIN tokens :
            QuoteHoldsParagraph(tokens, k) =>
                /\ Len(result.content) >= 1
                /\ result.content[1].type = "blockquote"
                /\ \E n \in DOMAIN result.content[1].content :
                       result.content[1].content[n] =
                           [type |-> "paragraph",
                            content |-> InlineAt(tokens, k + 1)]

-----------------------------------------------------------------------------
(* Marks: which text carries which.                                         *)

MarkCloses == {"strong_close", "em_close", "s_close", "link_close"}

\* the mark a close token closes
ClosedMark(t) ==
    CASE t = "strong_close" -> "strong"
      [] t = "em_close"     -> "em"
      [] t = "s_close"      -> "strike"
      [] t = "link_close"   -> "link"

\* every close token of the run closes the mark opened last and not yet
\* closed, and every mark is closed at the end (open: the marks open so far)
RECURSIVE WellFormed(_, _)
WellFormed(run, open) ==
    IF run = <<>> THEN open = <<>>
    ELSE IF run[1].type \in MarkOpens
         THEN WellFormed(Tail(run), Append(open, MarkOf(run[1].type)))
    ELSE IF run[1].type \in MarkCloses
         THEN IF open # <<>>
              THEN IF open[Len(open)] = ClosedMark(run[1].type)
                   THEN WellFormed(Tail(run), SubSeq(open, 1, Len(open) - 1))
                   ELSE FALSE
              ELSE FALSE
    ELSE WellFormed(Tail(run), open)

\* for each text token of a well-formed run, in order, the set of the marks
\* that are opened before it and not closed before it
RECURSIVE OpenMarkSets(_, _)
OpenMarkSets(run, open) ==
    IF run = <<>> THEN <<>>
    ELSE IF run[1].type \in MarkOpens
         THEN OpenMarkSets(Tail(run), Append(open, MarkOf(run[1].type)))
    ELSE IF run[1].type \in MarkCloses
         THEN OpenMarkSets(Tail(run), SubSeq(open, 1, Len(open) - 1))
    ELSE IF run[1].type = "text"
         THEN <<{open[k] : k \in DOMAIN open}>> \o OpenMarkSets(Tail(run), open)
    ELSE OpenMarkSets(Tail(run), open)

\* a run of mark tokens and non-empty text tokens in which every text token
\* lies inside a mark, so that each text token is emitted as a node of its own
MarkedRun(run) ==
    /\ \A k \in DOMAIN run :
           \/ run[k].type \in MarkOpens \cup MarkCloses
           \/ run[k].type = "text" /\ run[k].content # <<>>
    /\ WellFormed(run, <<>>)
    /\ OpenMarkSets(run, <<>>) # <<>>
    /\ \A k \in DOMAIN OpenMarkSets(run, <<>>) : OpenMarkSets(run, <<>>)[k] # {}

\* the set of marks of each node of a node list
MarkSets(nodes) ==
    [k \in DOMAIN nodes |->
        {MarkTypes(nodes[k])[j] : j \in DOMAIN MarkTypes(nodes[k])}]

\* C19: in an inline run with well-formed open/close pairs every text node
\* that comes from a text token carries exactly the marks whose open token
\* is before it and whose matching close token is not; so with a mark opened
\* twice in nesting (em inside em) the text after the inner close and before
\* the outer close still carries the mark.
C19_MarksAreTheOpenOnes ==
    (Converted /\ LoneParagraph(tokens) /\ MarkedRun(tokens[2].children)) =>
        /\ Len(result.content) = 1
        /\ MarkSets(result.content[1].content) =
               OpenMarkSets(tokens[2].children, <<>>)

\* a mark is opened, a softbreak fills the pending buffer, a text arrives
BreakThenTextUnderMark(run) ==
    /\ Len(run) = 3
    /\ run[1].type \in MarkOpens
    /\ run[2].type = "softbreak"
    /\ run[3].type = "text"
    /\ run[3].content # <<>>

\* C20: when a text token arrives while marks are open and the pending
\* buffer is not empty (after a softbreak inside a strong span, say), the
\* pending buffer is emitted first as a text node without marks, and then
\* the text token as a node with a copy of the open marks.
C20_PendingFlushedUnmarked ==
    (/\ Converted
     /\ LoneParagraph(tokens)
     /\ BreakThenTextUnderMark(tokens[2].children)) =>
        result.content =
            <<[type |-> "paragraph",
               content |->
                   <<TextNode(<<"\n">>),
                     MarkedText(tokens[2].children[3].content,
                                <<[type |-> MarkOf(tokens[2].children[1].type)]>>)>>]>>

-----------------------------------------------------------------------------
(* Calls in two threads.                                                    *)

\* the outcome of the call of thread id
OutcomeOf(id) ==
    IF other.id = id THEN Outcome(Running) ELSE Outcome(other.call)

\* the interleaved calls have both returned
BothDone ==
    IF other.phase = "both"
    THEN pc = "done" /\ other.call.pc = "done"
    ELSE FALSE

\* a step of the running call leaves the call of the other thread as it is
OtherUntouched ==
    (other.phase = "both" /\ other'.id = other.id) => other' = other

\* C16: two conversions whose steps interleave in any order, each on its
\* own token sequence, return the same trees as when each runs alone: the
\* cursor, the node lists, the pending text and the open marks belong to one
\* call, and nothing one call writes is read by the other.
C16_InterleavedAsAlone ==
    /\ [][OtherUntouched]_vars
    /\ [](BothDone =>
              /\ OutcomeOf(1) = other.alone[1]
              /\ OutcomeOf(2) = other.alone[2])

\* two calls on different token sequences have both returned a document
\* with nodes, after a thread switch that found both of them under way
C16_Witness ==
    /\ BothDone
    /\ other.mixed
    /\ other.calls[1].tokens # other.calls[2].tokens
    /\ entry = "_convert_to_adf"
    /\ other.call.entry = "_convert_to_adf"
    /\ result.content # <<>>
    /\ other.call.result.content # <<>>

-----------------------------------------------------------------------------
(* Images, code spans and closes in an inline run.                          *)

\* the placeholder of an image: its alt text in brackets, its URL when it
\* has no alt text
Placeholder(img) ==
    TextNode(<<"[Image: ">>
             \o (IF img.content # <<>> THEN img.content
                 ELSE IF LastAttr(img.attrs, "src") = None THEN <<>>
                 ELSE LastAttr(img.attrs, "src"))
             \o <<"]">>)

\* a run of text and image tokens with an image in it
TextAndImageRun(run) ==
    /\ \A k \in DOMAIN run : run[k].type \in {"text", "image"}
    /\ \E k \in DOMAIN run : run[k].type = "image"

\* the nodes of such a run: the texts before an image joined in one node,
\* then the placeholder of the image (pending: the texts not yet emitted)
RECURSIVE PlaceholderNodes(_, _)
PlaceholderNodes(run, pending) ==
    IF run = <<>>
    THEN IF pending # <<>> THEN <<TextNode(pending)>> ELSE <<>>
    ELSE IF run[1].type = "image"
         THEN (IF pending # <<>> THEN <<TextNode(pending)>> ELSE <<>>)
              \o <<Placeholder(run[1])>>
              \o PlaceholderNodes(Tail(run), <<>>)
    ELSE PlaceholderNodes(Tail(run), pending \o run[1].content)

\* C21: every image token of an inline run yields exactly one text
\* placeholder node, placed after the flushed pending buffer, whose text is
\* the alt text in brackets or, without an alt text, the URL; an image token
\* without a src attribute yields its placeholder as well.
C21_ImagePlaceholder ==
    (Converted /\ LoneParagraph(tokens) /\ TextAndImageRun(tokens[2].children)) =>
        result.content =
            <<[type |-> "paragraph",
               content |-> PlaceholderNodes(tokens[2].children, <<>>)]>>

RECURSIVE NoEmptyParagraph(_)
NoEmptyParagraph(nodes) ==
    \A k \in DOMAIN nodes :
        /\ nodes[k].type = "paragraph" => nodes[k].content # <<>>
        /\ HasContent(nodes[k]) => NoEmptyParagraph(nodes[k].content)

\* C22: no paragraph node with an empty content is anywhere in the output
\* tree (top level, list item, table cell): a paragraph whose inline run
\* yields no node is dropped, and an empty table cell has an empty content
\* list, not an empty paragraph.
C22_NoEmptyParagraph ==
    Done => NoEmptyParagraph(ResultNodes)

\* a table of one row with one empty cell has been converted: the cell node
\* is there and its content is the empty list
C22_Witness ==
    /\ Converted
    /\ Len(tokens) = 9
    /\ tokens[4].type = "td_open"
    /\ tokens[5].type = "inline"
    /\ tokens[5].children = <<>>
    /\ Len(result.content) = 1
    /\ result.content[1].type = "table"
    /\ result.content[1].content[1].content[1].type \in {"tableHeader", "tableCell"}
    /\ result.content[1].content[1].content[1].content = <<>>

\* the locals of _process_inline after the first k children of a run
After(run, k) == InlineLoop(SubSeq(run, 1, k), 1, InlineStart)

\* the pending text as the node a flush emits for it
PendingNode(st) ==
    IF st.current_text # <<>> THEN <<TextNode(st.current_text)>> ELSE <<>>

CodeNode(s) == [type |-> "text", text |-> s, marks |-> <<[type |-> "code"]>>]

\* the code span at k adds its node after the flushed pending text and
\* leaves the open marks as they are
CodeStep(run, k) ==
    /\ After(run, k).current_marks = After(run, k - 1).current_marks
    /\ After(run, k).current_text = <<>>
    /\ After(run, k).adf_content =
           After(run, k - 1).adf_content \o PendingNode(After(run, k - 1))
           \o <<CodeNode(run[k].content)>>

\* "**a `b` a**"
CodeInStrongRun ==
    <<Tok("strong_open"), Text(A), [Tok("code_inline") EXCEPT !.content = B],
      Text(A), Tok("strong_close")>>

\* the nodes of the one paragraph of the document, none when it was dropped
ParagraphNodes == IF result.content = <<>> THEN <<>> ELSE result.content[1].content

\* C23: a code_inline token always yields one text node whose marks are
\* exactly [code], whatever marks are open, and leaves the open marks as
\* they are, so that text after the code span carries the same marks as
\* text before it.
C23_CodeSpanAlone ==
    (Converted /\ LoneParagraph(tokens)) =>
        /\ \A k \in DOMAIN tokens[2].children :
               tokens[2].children[k].type = "code_inline" =>
                   CodeStep(tokens[2].children, k)
        /\ Cardinality({k \in DOMAIN ParagraphNodes :
                            MarkTypes(ParagraphNodes[k]) = <<"code">>})
               = Cardinality(TypesAt(tokens[2].children, "code_inline"))
        /\ \A k \in DOMAIN ParagraphNodes :
               \A j \in DOMAIN MarkTypes(ParagraphNodes[k]) :
                   MarkTypes(ParagraphNodes[k])[j] = "code" =>
                       Len(MarkTypes(ParagraphNodes[k])) = 1
        /\ tokens[2].children = CodeInStrongRun =>
               ParagraphNodes = <<MarkedText(A, <<[type |-> "strong"]>>),
                                  CodeNode(B),
                                  MarkedText(A, <<[type |-> "strong"]>>)>>

\* the document of "**a `b` a**" has been returned, the code span between
\* two texts under strong
C23_Witness ==
    /\ Converted
    /\ tokens = Para(CodeInStrongRun)
    /\ Len(result.content) = 1
    /\ Len(result.content[1].content) = 3
    /\ MarkTypes(result.content[1].content[2]) = <<"code">>
    /\ MarkTypes(result.content[1].content[3]) = <<"strong">>

\* the close at k takes every mark of type t off the stack and leaves the
\* marks of the other types, in their order, and the nodes and the pending
\* text as they are
CloseStep(run, k, t) ==
    /\ \A j \in DOMAIN After(run, k).current_marks :
           After(run, k).current_marks[j].type # t
    /\ IsSubseq(After(run, k).current_marks, After(run, k - 1).current_marks)
    /\ Len(After(run, k).current_marks) =
           Cardinality({j \in DOMAIN After(run, k - 1).current_marks :
                            After(run, k - 1).current_marks[j].type # t})
    /\ After(run, k).adf_content = After(run, k - 1).adf_content
    /\ After(run, k).current_text = After(run, k - 1).current_text

\* strong is closed under the open em
CloseUnderEmRun ==
    <<Tok("strong_open"), Tok("em_open"), Tok("strong_close"), Text(A),
      Tok("em_close")>>

\* strike is closed under the open link
CloseUnderLinkRun ==
    <<Tok("s_open"), LinkOpen(<<<<"href", U>>>>), Tok("s_close"), Text(A),
      Tok("link_close")>>

\* C24: a close token of one mark type removes only marks of that type from
\* the open-marks stack: every open mark of another type stays on the stack
\* in its original relative order, also when the closed mark is not the top
\* of the stack.
C24_CloseRemovesItsType ==
    (Converted /\ LoneParagraph(tokens)) =>
        /\ \A k \in DOMAIN tokens[2].children :
               tokens[2].children[k].type \in MarkCloses =>
                   CloseStep(tokens[2].children, k,
                             ClosedMark(tokens[2].children[k].type))
        /\ tokens[2].children = CloseUnderEmRun =>
               ParagraphNodes = <<MarkedText(A, <<[type |-> "em"]>>)>>
        /\ tokens[2].children = CloseUnderLinkRun =>
               ParagraphNodes =
                   <<MarkedText(A, <<[type |-> "link",
                                      attrs |-> [href |-> U]]>>)>>

\* a run whose strong was closed under the open em has been converted: the
\* text after the close carries em alone
C24_Witness ==
    /\ Converted
    /\ tokens = Para(CloseUnderEmRun)
    /\ After(CloseUnderEmRun, 2).current_marks =
           <<[type |-> "strong"], [type |-> "em"]>>
    /\ Len(result.content) = 1
    /\ MarkTypes(result.content[1].content[1]) = <<"em">>

\* stands for a hard break among the characters of a run
BreakSign == "hardBreak"

\* what one child of a run contributes to the text of the run; an image
\* has a src when its src attribute is a non-empty string
SourcePiece(child) ==
    CASE child.type \in {"text", "code_inline"} -> child.content
      [] child.type = "softbreak" -> <<"\n">>
      [] child.type = "hardbreak" -> <<BreakSign>>
      [] child.type = "image" ->
            IF LastAttr(child.attrs, "src") \notin {None, <<>>}
            THEN Placeholder(child).text
            ELSE <<>>
      [] OTHER -> <<>>

RECURSIVE SourceText(_)
SourceText(run) ==
    IF run = <<>> THEN <<>> ELSE SourcePiece(run[1]) \o SourceText(Tail(run))

RECURSIVE OutputText(_)
OutputText(nodes) ==
    IF nodes = <<>> THEN <<>>
    ELSE (IF nodes[1].type = "text" THEN nodes[1].text ELSE <<BreakSign>>)
         \o OutputText(Tail(nodes))

\* text, soft break, marked text, hard break, image, code span, text and a
\* closing hard break
BreaksAndImageRun ==
    <<Text(A), Tok("softbreak"), Tok("strong_open"), Text(B), Tok("hardbreak"),
      Image(A, <<<<"src", U>>, <<"alt", <<>>>>>>),
      [Tok("code_inline") EXCEPT !.content = B], Text(A), Tok("strong_close"),
      Text(B), Tok("hardbreak")>>

\* C25: the inline processor neither loses nor reorders text: the text of
\* the emitted text nodes, in output order, is the content of every text and
\* code_inline token in source order, with one newline per softbreak and the
\* placeholder text of every image that has a src; the hardBreak nodes stand
\* at the positions of the hardbreak tokens.
C25_TextKept ==
    (Converted /\ LoneParagraph(tokens)) =>
        /\ \A k \in DOMAIN ParagraphNodes :
               ParagraphNodes[k].type \in {"text", "hardBreak"}
        /\ OutputText(ParagraphNodes) = SourceText(tokens[2].children)

\* the run with soft and hard breaks, an image and a code span has been
\* converted, its text and breaks in source order
C25_Witness ==
    /\ Converted
    /\ tokens = Para(BreaksAndImageRun)
    /\ Len(result.content) = 1
    /\ OutputText(result.content[1].content) =
           <<"a", "\n", "b", BreakSign, "[Image: ", "a", "]", "b", "a", "b",
             BreakSign>>

-----------------------------------------------------------------------------
(***************************************************************************)
(* The calls of the client to the JIRA REST API: the wrapper that          *)
(* retry_on_failure puts around a function, create_issue under it,         *)
(* bulk_create_issues and transition_issue.  The server and the wrapped    *)
(* function belong to the outside: each reply and each outcome is chosen   *)
(* freely when the call is made, and `history` records it.                 *)
(***************************************************************************)
MaxRetries == 3
MaxIssues == 2
MaxTransitions == 2

\* @retry_on_failure(max_retries=3) on create_issue
create_issue_max_retries == 3

\* the default of the delay parameter of retry_on_failure
delay == 1

\* the decimal digits of the status codes drawn
StatusDigits(status_code) ==
    CASE status_code = 400 -> <<"4", "0", "0">>
      [] status_code = 404 -> <<"4", "0", "4">>
      [] OTHER -> <<"5", "0", "0">>

\* what raise_for_status raises
HTTPError(status_code) == <<"HTTPError", StatusDigits(status_code)>>

\* what session.request raises when the server cannot be reached
ConnectionError ==
    <<"ConnectionError", <<"r", "e", "f", "u", "s", "e", "d">>>>

\* str on an exception: its message
str(e) == e[2]

\* the replies of session.request: a response, or no response at all
Response(status_code, json) ==
    [ok |-> TRUE, status_code |-> status_code, json |-> json]

NoResponse == [ok |-> FALSE, e |-> ConnectionError]

\* _make_request on the reply of session.request: the exception it lets
\* out (None: none) and the response it returns
_make_request(reply) ==
    IF ~reply.ok
    THEN [raised |-> reply.e]
    ELSE IF reply.status_code >= 400
         THEN [raised |-> HTTPError(reply.status_code)]
         ELSE [raised |-> None, response |-> reply]

\* the record of one request in the history
Request(method, endpoint, json, reply) ==
    [op |-> "request", method |-> method, endpoint |-> endpoint,
     json |-> json, reply |-> reply]

\* the values and exceptions of a wrapped function
Values == {<<"v", "1">>, <<"v", "2">>}

Exceptions == {HTTPError(400), ConnectionError}

\* the keyword arguments of one create_issue call
IssueData == {[summary |-> A], [summary |-> B]}

IssueLists == UNION {[1..n -> IssueData] : n \in 0..MaxIssues}

\* the replies of the server to POST issue
CreateReplies ==
    {Response(201, [key |-> k]) : k \in {<<"P", "1">>, <<"P", "2">>}}
    \cup {Response(400, [errorMessages |-> <<>>]), NoResponse}

\* target status names, requested statuses and transition ids
StatusNames == {<<"D", "o">>, <<"T", "o", "D", "o">>, <<"G", "o">>}

Statuses == {<<"d", "o">>, <<"D", "O">>, <<"o">>, <<"x">>, <<>>}

TransitionId(k) == <<<<"1", "2", "3", "4">>[k], "1">>

TransitionLists ==
    UNION {{[k \in 1..n |-> [id |-> TransitionId(k), to |-> [name |-> f[k]]]]
                : f \in [1..n -> StatusNames]} : n \in 0..MaxTransitions}

\* the replies of the server to GET issue/{key}/transitions and to the POST
TransitionsReplies ==
    {Response(200, [transitions |-> ts]) : ts \in TransitionLists}
    \cup {Response(404, [errorMessages |-> <<>>]), NoResponse}

TransitionReplies ==
    {Response(s, <<>>) : s \in {200, 202, 204, 400}} \cup {NoResponse}

\* str.lower on the letters drawn
lower(s) ==
    [k \in DOMAIN s |->
        CASE s[k] = "D" -> "d"
          [] s[k] = "O" -> "o"
          [] s[k] = "T" -> "t"
          [] s[k] = "G" -> "g"
          [] OTHER -> s[k]]

\* Python's "sub in s" on str
In(sub, s) ==
    \E k \in 0..(Len(s) - Len(sub)) : SubSeq(s, k + 1, k + Len(sub)) = sub

\* the first loop of transition_issue: the id of the first transition whose
\* target name is the status, both lowered
RECURSIVE exact_match(_, _)
exact_match(transitions, status) ==
    IF transitions = <<>> THEN None
    ELSE IF lower(transitions[1].to.name) = lower(status)
         THEN transitions[1].id
         ELSE exact_match(Tail(transitions), status)

\* the second loop: the id of the first transition whose lowered target
\* name holds the lowered status
RECURSIVE partial_match(_, _)
partial_match(transitions, status) ==
    IF transitions = <<>> THEN None
    ELSE IF In(lower(status), lower(transitions[1].to.name))
         THEN transitions[1].id
         ELSE partial_match(Tail(transitions), status)

\* the partial match is tried first
partial_before_exact(transitions, status) ==
    IF Truthy(partial_match(transitions, status))
    THEN partial_match(transitions, status)
    ELSE exact_match(transitions, status)

\* transition_id after the two loops
transition_id(transitions, status) ==
    IF Truthy(exact_match(transitions, status))
    THEN exact_match(transitions, status)
    ELSE partial_match(transitions, status)

\* the frames of the client calls
WrapperFrame(func, max_retries, kwargs) ==
    [fn |-> "wrapper", func |-> func, max_retries |-> max_retries,
     kwargs |-> kwargs, attempt |-> 0, at |-> "for", e |-> None]

BulkFrame(issues) ==
    [fn |-> "bulk_create_issues", issues |-> issues, i |-> 1,
     results |-> <<>>, at |-> "for", result |-> None, e |-> None]

TransitionFrame(status) ==
    [fn |-> "transition_issue", status |-> status, at |-> "get",
     transitions |-> <<>>, transition_id |-> None, e |-> None]

\* the running call is fn, at the position at
At(fn, at) ==
    /\ pc = "client"
    /\ stack # <<>>
    /\ Top.fn = fn
    /\ Top.at = at

Goto(f) == stack' = [stack EXCEPT ![Len(stack)] = f]

\* the running call returns v: to its caller, which goes on after the call,
\* or to the outside
Return(v) ==
    IF Len(stack) = 1
    THEN /\ stack' = <<>>
         /\ pc' = "done"
         /\ result' = v
         /\ UNCHANGED raised
    ELSE /\ stack' = Append(SubSeq(stack, 1, Len(stack) - 2),
                            [stack[Len(stack) - 1] EXCEPT
                                !.at = "returned", !.result = v])
         /\ UNCHANGED <<pc, result, raised>>

\* the running call lets e out: to the except clause of its caller, or to
\* the outside
Raise(e) ==
    IF Len(stack) = 1
    THEN /\ stack' = <<>>
         /\ pc' = "done"
         /\ raised' = e
         /\ UNCHANGED result
    ELSE /\ stack' = Append(SubSeq(stack, 1, Len(stack) - 2),
                            [stack[Len(stack) - 1] EXCEPT
                                !.at = "except", !.e = e])
         /\ UNCHANGED <<pc, result, raised>>

\* for attempt in range(max_retries): the call of the wrapped function, or
\* the return None behind the loop
wrapper_for ==
    /\ At("wrapper", "for")
    /\ IF Top.attempt < Top.max_retries
       THEN /\ Goto([Top EXCEPT !.at = "try"])
            /\ history' = Append(history, [op |-> "call", func |-> Top.func,
                                           attempt |-> Top.attempt])
            /\ UNCHANGED <<pc, result, raised>>
       ELSE /\ Return(None)
            /\ UNCHANGED history
    /\ UNCHANGED <<entry, text, tokens, other, args>>

\* a wrapped function of the outside returns a value
func_returns ==
    /\ At("wrapper", "try")
    /\ Top.func = "func"
    /\ \E v \in Values :
           /\ history' = Append(history, [op |-> "return", value |-> v])
           /\ Return(v)
    /\ UNCHANGED <<entry, text, tokens, other, args>>

\* a wrapped function of the outside raises
func_raises ==
    /\ At("wrapper", "try")
    /\ Top.func = "func"
    /\ \E e \in Exceptions :
           /\ history' = Append(history, [op |-> "raise", e |-> e])
           /\ Goto([Top EXCEPT !.at = "except", !.e = e])
    /\ UNCHANGED <<entry, text, tokens, pc, result, raised, other, args>>

\* create_issue under the wrapper: the POST of the fields, then the JSON of
\* the response, or the exception of _make_request
create_issue ==
    /\ At("wrapper", "try")
    /\ Top.func = "create_issue"
    /\ \E reply \in CreateReplies :
           IF _make_request(reply).raised # None
           THEN /\ history' =
                       history \o
                       <<Request("POST", "issue", [fields |-> Top.kwargs], reply),
                         [op |-> "raise", e |-> _make_request(reply).raised]>>
                /\ Goto([Top EXCEPT !.at = "except",
                                    !.e = _make_request(reply).raised])
                /\ UNCHANGED <<pc, result, raised>>
           ELSE /\ history' =
                       history \o
                       <<Request("POST", "issue", [fields |-> Top.kwargs], reply),
                         [op |-> "return",
                          value |-> _make_request(reply).response.json]>>
                /\ Return(_make_request(reply).response.json)
    /\ UNCHANGED <<entry, text, tokens, other, args>>

\* the last attempt is taken for one before the last: a sleep follows
\* it and the loop runs out
wrapper_except_past_last ==
    /\ At("wrapper", "except")
    /\ IF Top.attempt = Top.max_retries
       THEN /\ Raise(Top.e)
            /\ UNCHANGED history
       ELSE /\ history' = Append(history, [op |-> "sleep", seconds |-> delay])
            /\ Goto([Top EXCEPT !.at = "for", !.attempt = @ + 1])
            /\ UNCHANGED <<pc, result, raised>>
    /\ UNCHANGED <<entry, text, tokens, other, args>>

\* except Exception: raise on the last attempt, else time.sleep(delay) and
\* the next attempt
wrapper_except ==
    /\ At("wrapper", "except")
    /\ IF Top.attempt = Top.max_retries - 1
       THEN /\ Raise(Top.e)
            /\ UNCHANGED history
       ELSE /\ history' = Append(history, [op |-> "sleep", seconds |-> delay])
            /\ Goto([Top EXCEPT !.at = "for", !.attempt = @ + 1])
            /\ UNCHANGED <<pc, result, raised>>
    /\ UNCHANGED <<entry, text, tokens, other, args>>

\* for issue_data in issues: the call of create_issue, or return results
bulk_for ==
    /\ At("bulk_create_issues", "for")
    /\ IF Top.i <= Len(Top.issues)
       THEN /\ stack' = Append([stack EXCEPT ![Len(stack)].at = "call"],
                               WrapperFrame("create_issue",
                                            create_issue_max_retries,
                                            Top.issues[Top.i]))
            /\ UNCHANGED <<pc, result, raised>>
       ELSE Return(Top.results)
    /\ UNCHANGED <<entry, text, tokens, other, history, args>>

\* results.append(result)
bulk_append ==
    /\ At("bulk_create_issues", "returned")
    /\ Goto([Top EXCEPT !.results = Append(@, Top.result),
                        !.i = @ + 1, !.at = "for"])
    /\ UNCHANGED <<entry, text, tokens, pc, result, raised, other, history,
                   args>>

\* the loop ends at the first issue that failed
bulk_except_stops ==
    /\ At("bulk_create_issues", "except")
    /\ Goto([Top EXCEPT
                !.results = Append(@, [error |-> str(Top.e),
                                       data |-> Top.issues[Top.i]]),
                !.i = Len(Top.issues) + 1, !.at = "for"])
    /\ UNCHANGED <<entry, text, tokens, pc, result, raised, other, history,
                   args>>

\* except Exception: the error entry, then the next issue
bulk_except ==
    /\ At("bulk_create_issues", "except")
    /\ Goto([Top EXCEPT
                !.results = Append(@, [error |-> str(Top.e),
                                       data |-> Top.issues[Top.i]]),
                !.i = @ + 1, !.at = "for"])
    /\ UNCHANGED <<entry, text, tokens, pc, result, raised, other, history,
                   args>>

\* the GET of the transitions of the issue
transition_get ==
    /\ At("transition_issue", "get")
    /\ \E reply \in TransitionsReplies :
           /\ history' = Append(history,
                                Request("GET", "transitions", None, reply))
           /\ IF _make_request(reply).raised # None
              THEN Goto([Top EXCEPT !.at = "except",
                                    !.e = _make_request(reply).raised])
              ELSE Goto([Top EXCEPT
                            !.at = "select",
                            !.transitions =
                                _make_request(reply).response.json.transitions])
    /\ UNCHANGED <<entry, text, tokens, pc, result, raised, other, args>>

\* the two loops over the transitions, and return False without a match
transition_select ==
    /\ At("transition_issue", "select")
    /\ IF ~Truthy(transition_id(Top.transitions, Top.status))
       THEN Return(FALSE)
       ELSE /\ Goto([Top EXCEPT
                        !.at = "post",
                        !.transition_id =
                            transition_id(Top.transitions, Top.status)])
            /\ UNCHANGED <<pc, result, raised>>
    /\ UNCHANGED <<entry, text, tokens, other, history, args>>

\* the POST of the transition, and the status code test of the return
transition_post ==
    /\ At("transition_issue", "post")
    /\ \E reply \in TransitionReplies :
           /\ history' =
                  Append(history,
                         Request("POST", "transitions",
                                 [transition |-> [id |-> Top.transition_id]],
                                 reply))
           /\ IF _make_request(reply).raised # None
              THEN /\ Goto([Top EXCEPT !.at = "except",
                                       !.e = _make_request(reply).raised])
                   /\ UNCHANGED <<pc, result, raised>>
              ELSE Return(_make_request(reply).response.status_code
                              \in {200, 204})
    /\ UNCHANGED <<entry, text, tokens, other, args>>

\* except Exception: return False
transition_except ==
    /\ At("transition_issue", "except")
    /\ Return(FALSE)
    /\ UNCHANGED <<entry, text, tokens, other, history, args>>

InitClient ==
    /\ text = None
    /\ tokens = <<>>
    /\ other = NoOther
    /\ result = None
    /\ raised = None
    /\ history = <<>>
    /\ pc = "client"
    /\ \/ /\ entry = "wrapper"
          /\ \E n \in 0..MaxRetries :
                 /\ args = [max_retries |-> n]
                 /\ stack = <<WrapperFrame("func", n, None)>>
       \/ /\ entry = "create_issue"
          /\ \E kwargs \in IssueData :
                 /\ args = [max_retries |-> create_issue_max_retries,
                            kwargs |-> kwargs]
                 /\ stack = <<WrapperFrame("create_issue",
                                           create_issue_max_retries, kwargs)>>
       \/ /\ entry = "bulk_create_issues"
          /\ \E issues \in IssueLists :
                 /\ args = [issues |-> issues]
                 /\ stack = <<BulkFrame(issues)>>
       \/ /\ entry = "transition_issue"
          /\ \E status \in Statuses :
                 /\ args = [status |-> status]
                 /\ stack = <<TransitionFrame(status)>>

NextClient ==
    \/ wrapper_for
    \/ func_returns
    \/ func_raises
    \/ create_issue
    \/ wrapper_except
    \/ bulk_for
    \/ bulk_append
    \/ bulk_except
    \/ transition_get
    \/ transition_select
    \/ transition_post
    \/ transition_except

SpecClient == InitClient /\ [][NextClient]_vars

-----------------------------------------------------------------------------
(***************************************************************************)
(* The retry wrapper, the transition of an issue and the bulk creation     *)
(***************************************************************************)
\* the positions of the events of one kind in the history
Events(op) == {k \in DOMAIN history : history[k].op = op}

\* every sleep stands behind a failed attempt and before the next call
SleepsBetweenAttempts ==
    \A k \in Events("sleep") :
        /\ k > 1
        /\ history[k - 1].op = "raise"
        /\ k < Len(history) => history[k + 1].op = "call"
        /\ pc = "done" => k < Len(history)

\* C26: a function wrapped by retry_on_failure(max_retries=n) with n >= 1 is
\* invoked at most n times and never again after an invocation has returned;
\* the first returned value is the wrapper's result; a delay happens only
\* between a failed attempt and the next attempt; when all n attempts raise,
\* the exception of the n-th attempt propagates to the caller.
C26_RetryWrapper ==
    (entry \in {"wrapper", "create_issue"} /\ args.max_retries >= 1) =>
        /\ Cardinality(Events("call")) <= args.max_retries
        /\ \A k \in Events("call") :
               \A j \in Events("return") : k < j
        /\ \A j \in Events("return") : pc = "done" /\ j = Len(history)
        /\ (pc = "done" /\ Events("return") # {}) =>
               /\ raised = None
               /\ result = history[Min(Events("return"))].value
        /\ SleepsBetweenAttempts
        /\ (pc = "done" /\ Cardinality(Events("raise")) = args.max_retries) =>
               /\ history[Len(history)].op = "raise"
               /\ raised = history[Len(history)].e
               /\ result = None
        /\ (pc = "done" /\ Events("return") = {}) =>
               /\ Cardinality(Events("raise")) = args.max_retries
               /\ raised # None

\* three attempts of three have raised, the last one another exception
\* than the ones before, and the wrapper has let the last one out
C26_Witness ==
    /\ pc = "done"
    /\ entry = "wrapper"
    /\ args.max_retries = 3
    /\ Len(history) = 8
    /\ history[2] = [op |-> "raise", e |-> HTTPError(400)]
    /\ history[3].op = "sleep"
    /\ history[5] = [op |-> "raise", e |-> HTTPError(400)]
    /\ history[6].op = "sleep"
    /\ history[8] = [op |-> "raise", e |-> ConnectionError]
    /\ raised = ConnectionError

\* two letters that differ in case at most
SameLetter(a, b) ==
    \/ a = b
    \/ {a, b} \in {{"d", "D"}, {"o", "O"}, {"t", "T"}, {"g", "G"}}

\* the name is the status, ignoring case
EqualsStatus(name, status) ==
    /\ Len(name) = Len(status)
    /\ \A k \in DOMAIN name : SameLetter(name[k], status[k])

\* the name contains the status, ignoring case
ContainsStatus(name, status) ==
    \E off \in 0..(Len(name) - Len(status)) :
        \A k \in DOMAIN status : SameLetter(name[off + k], status[k])

\* the requests of one method, and the requests that failed
Sent(method) ==
    {k \in Events("request") : history[k].method = method}

Failed(k) ==
    IF history[k].reply.ok THEN history[k].reply.status_code >= 400 ELSE TRUE

\* the transitions the server listed
Listed == history[1].reply.json.transitions

\* the id the POST at k carries is the one transition_issue has to select
\* among the listed transitions
RightTransition(k) ==
    IF \E t \in DOMAIN Listed : EqualsStatus(Listed[t].to.name, args.status)
    THEN \E t \in DOMAIN Listed :
             /\ EqualsStatus(Listed[t].to.name, args.status)
             /\ history[k].json.transition.id = Listed[t].id
    ELSE \E t \in DOMAIN Listed :
             /\ ContainsStatus(Listed[t].to.name, args.status)
             /\ \A u \in 1..(t - 1) :
                    ~ContainsStatus(Listed[u].to.name, args.status)
             /\ history[k].json.transition.id = Listed[t].id

\* C27: transition_issue selects a transition whose target status name
\* equals the requested status (ignoring case) whenever one exists, and falls
\* back to the first transition whose target name contains the requested
\* status only when there is no exact match; when no transition matches, no
\* POST is sent and the result is False; the method returns False instead of
\* raising when any request fails.
C27_TransitionSelected ==
    entry = "transition_issue" =>
        /\ raised = None
        /\ pc = "done" => result \in BOOLEAN
        /\ \A k \in Sent("POST") :
               /\ k = 2
               /\ history[1].method = "GET"
               /\ ~Failed(1)
               /\ RightTransition(k)
        /\ (Sent("GET") # {} /\ ~Failed(1)
                /\ \A t \in DOMAIN Listed :
                       ~ContainsStatus(Listed[t].to.name, args.status)) =>
               /\ Sent("POST") = {}
               /\ pc = "done" => result = FALSE
        /\ (pc = "done" /\ \E k \in Events("request") : Failed(k)) =>
               result = FALSE

\* "ToDo" is listed before "Do", "do" was asked for, and the id of "Do" has
\* been posted
C27_Witness ==
    /\ pc = "done"
    /\ entry = "transition_issue"
    /\ args.status = <<"d", "o">>
    /\ Len(history) = 2
    /\ history[1].reply.ok
    /\ history[1].reply.status_code = 200
    /\ Len(history[1].reply.json.transitions) = 2
    /\ history[1].reply.json.transitions[1].to.name = <<"T", "o", "D", "o">>
    /\ history[1].reply.json.transitions[2].to.name = <<"D", "o">>
    /\ history[2].json.transition.id = TransitionId(2)
    /\ history[2].reply.ok
    /\ history[2].reply.status_code = 204
    /\ result = TRUE

\* the entries of the list bulk_create_issues has to return for the history h,
\* which starts at issue i after fails failed attempts for it
RECURSIVE Entries(_, _, _)
Entries(h, i, fails) ==
    IF h = <<>> THEN <<>>
    ELSE IF i > Len(args.issues) THEN <<[unasked |-> h[1]]>>
    ELSE IF h[1].op = "request" /\ h[1].json # [fields |-> args.issues[i]]
    THEN <<[unasked |-> h[1]]>>
    ELSE IF h[1].op = "return"
    THEN <<h[1].value>> \o Entries(Tail(h), i + 1, 0)
    ELSE IF h[1].op = "raise" /\ fails = create_issue_max_retries - 1
    THEN <<[error |-> h[1].e[2], data |-> args.issues[i]]>>
         \o Entries(Tail(h), i + 1, 0)
    ELSE IF h[1].op = "raise"
    THEN Entries(Tail(h), i, fails + 1)
    ELSE Entries(Tail(h), i, fails)

\* an entry for issue i: the issue the server created, or the error and the
\* data of the issue
EntryFor(e, i) ==
    \/ /\ DOMAIN e = {"key"}
       /\ \E k \in Sent("POST") :
              /\ ~Failed(k)
              /\ history[k].reply.json = e
              /\ history[k].json.fields = args.issues[i]
    \/ /\ DOMAIN e = {"error", "data"}
       /\ e.data = args.issues[i]

\* C28: bulk_create_issues returns a list with exactly one entry per input
\* issue, in input order: the created issue when create_issue succeeded, and
\* an entry with an "error" key and the original data when it failed after
\* its retries; a failure for one issue never stops the creation of the
\* issues after it.
C28_BulkEntries ==
    entry = "bulk_create_issues" =>
        /\ raised = None
        /\ pc = "done" =>
               /\ Len(result) = Len(args.issues)
               /\ result = Entries(history, 1, 0)
               /\ \A i \in DOMAIN result : EntryFor(result[i], i)
               /\ \A i \in DOMAIN args.issues :
                      \E k \in Sent("POST") :
                          history[k].json.fields = args.issues[i]

\* the first of two issues has failed three times, the second has been
\* created, and the list holds the error entry and the created issue
C28_Witness ==
    /\ pc = "done"
    /\ entry = "bulk_create_issues"
    /\ args.issues = <<[summary |-> A], [summary |-> B]>>
    /\ Cardinality(Sent("POST")) = 4
    /\ result = <<[error |-> ConnectionError[2], data |-> [summary |-> A]],
                  [key |-> <<"P", "1">>]>>

=============================================================================
